---------------------------- MODULE Spec2Model ----------------------------
(***************************************************************************)
(* A model of the Stability AI demonstration client:                       *)
(*   - api_schemas.py            the pydantic request schemas and          *)
(*                               validate_request_for_model                *)
(*   - utils/file_handler.py     the Streamlit upload validators           *)
(*   - stability_client.py       StabilityClient (used by the backend)     *)
(*   - utils/api_client.py       StabilityAPIClient (used by Streamlit)    *)
(*   - main.py                   the Streamlit button handlers             *)
(*   - fastapi_backend_example.py  the backend endpoints                   *)
(*                                                                         *)
(* Every operation is a call: Init draws the call (which operation, its    *)
(* arguments, and what the remote API would answer if it is asked), the    *)
(* operation's action runs the whole handler once, records every HTTP      *)
(* request it issued in `http` and its outcome in `res`.                   *)
(*                                                                         *)
(* Representation of Python values                                         *)
(*   None / a value        <<>> / <<v>>   (None, Some(v))                  *)
(*   dict                  a function whose DOMAIN is the set of keys      *)
(*   str                   its runs of whitespace and non-whitespace       *)
(*                         characters, <<[ws |-> BOOLEAN, n |-> length]>>, *)
(*                         adjacent runs alternating; "" is <<>>           *)
(*   enum members          their string value                              *)
(*   float knobs           integers in thousandths (0.1 is 100)            *)
(***************************************************************************)
EXTENDS Integers, Sequences, FiniteSets, TLC

VARIABLES op, arg, remote, pc, http, res,
          client,              \* the StabilityAPIClient object calls are made on
          generation_history,  \* st.session_state.generation_history
          added,               \* every item add_to_history was given, in order
          stability_client,    \* the backend's global stability_client
          constructed,         \* how many StabilityClient objects the backend built
          inflight             \* the backend's requests in flight

\* what one call of the first specification leaves alone
session == <<client, generation_history, added, stability_client, constructed, inflight>>

vars == <<op, arg, remote, pc, http, res, client, generation_history, added,
          stability_client, constructed, inflight>>

---------------------------------------------------------------------------
(* Bounds of the model *)

\* the calls made one after another on one StabilityAPIClient
MaxCalls == 3

\* the requests the backend serves at the same time
MaxRequests == 2

\* the items add_to_history is given in one session, after those it starts with
MaxAdds == 3

\* the longest prompt, counted in runs, among the enumerated short strings
MaxRuns == 2

\* the most fields a caller supplies in a raw request dict
MaxSupplied == 4

---------------------------------------------------------------------------
(* Python values *)

None == <<>>

Some(v) == <<v>>

\* dict.get(k)
Get(d, k) == IF k \in DOMAIN d THEN Some(d[k]) ELSE None

EmptyDict == [k \in {} |-> None]

\* one run of n whitespace (ws) or non-whitespace characters
Run(ws, n) == [ws |-> ws, n |-> n]

EmptyStr == <<>>

RECURSIVE StrLen(_)
\* len(s)
StrLen(s) == IF s = <<>> THEN 0 ELSE Head(s).n + StrLen(Tail(s))

\* str.strip(): leading and trailing whitespace removed
strip(s) ==
    LET a == IF s # <<>> /\ Head(s).ws THEN Tail(s) ELSE s
    IN  IF a # <<>> /\ a[Len(a)].ws THEN SubSeq(a, 1, Len(a) - 1) ELSE a

\* truth value of a str: non-empty
StrTruthy(s) == s # <<>>

RECURSIVE StrsOfRuns(_)
\* every string of at most k runs of one character each
StrsOfRuns(k) ==
    IF k = 0 THEN {<<>>}
    ELSE LET shorter == StrsOfRuns(k - 1)
         IN  shorter \cup
             UNION { { Append(s, Run(w, 1)) :
                         w \in {b \in BOOLEAN : s = <<>> \/ s[Len(s)].ws # b} } :
                     s \in {t \in shorter : Len(t) = k - 1} }

---------------------------------------------------------------------------
(* api_schemas.py: enums and field limits *)

OutputFormat == {"png", "jpeg", "webp"}

AspectRatio == {"1:1", "16:9", "9:16", "3:2", "2:3", "4:3", "3:4"}

StylePreset == {"", "photographic", "anime", "digital-art", "3d-model",
                "pixel-art", "cinematic", "fantasy-art", "illustration"}

GenerationMode == {"text-to-image", "image-to-image"}

SD35Model == {"sd3.5-large", "sd3.5-large-turbo", "sd3.5-medium"}

PromptMaxLength == 10000

SeedMax == 2147483647

\* the fields of each request class, in declaration order (inherited first)
BaseFields == <<"prompt", "negative_prompt", "output_format", "style_preset", "seed">>

VariantTags == {"core", "sd35", "ultra", "sketch", "structure", "style_guide",
                "style_transfer"}

ModelFields(tag) ==
    CASE tag = "core"           -> BaseFields \o <<"aspect_ratio">>
      [] tag = "sd35"           -> BaseFields \o <<"mode", "model", "aspect_ratio", "strength">>
      [] tag = "ultra"          -> BaseFields \o <<"aspect_ratio", "strength">>
      [] tag = "sketch"         -> BaseFields \o <<"control_strength">>
      [] tag = "structure"      -> BaseFields \o <<"control_strength">>
      [] tag = "style_guide"    -> BaseFields \o <<"control_strength", "fidelity">>
      [] tag = "style_transfer" -> BaseFields \o <<"style_strength", "composition_fidelity",
                                                   "change_strength">>
      [] OTHER                  -> BaseFields

\* the result of validating one field: an error, or the value the model keeps
FieldError == [err |-> TRUE, val |-> None]

FieldOk(v) == [err |-> FALSE, val |-> v]

\* a faulty prompt_not_empty: it tests v and returns v.strip()
prompt_not_empty_tests_raw(v) ==
    IF ~StrTruthy(v) THEN FieldError ELSE FieldOk(Some(strip(v)))

\* a faulty prompt_not_empty: it tests v.strip() and returns v as given
prompt_not_empty_no_trim(v) ==
    IF ~StrTruthy(strip(v)) THEN FieldError ELSE FieldOk(Some(v))

\* @validator('prompt')
prompt_not_empty(v) ==
    IF ~StrTruthy(strip(v)) THEN FieldError ELSE FieldOk(Some(strip(v)))

\* prompt: str = Field(..., max_length=10000), then prompt_not_empty
PromptField(X) ==
    IF "prompt" \notin DOMAIN X THEN FieldError
    ELSE IF StrLen(X["prompt"]) > PromptMaxLength THEN FieldError
    ELSE prompt_not_empty(X["prompt"])

\* negative_prompt: Optional[str] = Field(None, max_length=10000)
NegativePromptField(X) ==
    IF "negative_prompt" \notin DOMAIN X THEN FieldOk(None)
    ELSE IF StrLen(X["negative_prompt"]) > PromptMaxLength THEN FieldError
    ELSE FieldOk(Some(X["negative_prompt"]))

\* a field of an Enum type with a default
EnumField(X, name, members, default) ==
    IF name \notin DOMAIN X THEN FieldOk(Some(default))
    ELSE IF X[name] \in members THEN FieldOk(Some(X[name]))
    ELSE FieldError

\* seed: Optional[int] = Field(None, ge=0, le=2147483647)
SeedField(X) ==
    IF "seed" \notin DOMAIN X THEN FieldOk(None)
    ELSE IF X["seed"] >= 0 /\ X["seed"] <= SeedMax THEN FieldOk(Some(X["seed"]))
    ELSE FieldError

\* a faulty float field: the upper limit declared lt instead of le
RangeField_open_top(X, name, default, lo, hi) ==
    IF name \notin DOMAIN X THEN FieldOk(default)
    ELSE IF X[name] >= lo /\ X[name] < hi THEN FieldOk(Some(X[name]))
    ELSE FieldError

\* a float field: Field(default, ge=lo, le=hi); default is None or Some(value)
RangeField(X, name, default, lo, hi) ==
    IF name \notin DOMAIN X THEN FieldOk(default)
    ELSE IF X[name] >= lo /\ X[name] <= hi THEN FieldOk(Some(X[name]))
    ELSE FieldError


\* the fields of BaseGenerationRequest, each validated against the raw dict X
BaseGenerationRequest(X) ==
    ("prompt" :> PromptField(X))
    @@ ("negative_prompt" :> NegativePromptField(X))
    @@ ("output_format" :> EnumField(X, "output_format", OutputFormat, "png"))
    @@ ("style_preset" :> EnumField(X, "style_preset", StylePreset, ""))
    @@ ("seed" :> SeedField(X))

CoreImageRequest(X) ==
    BaseGenerationRequest(X)
    @@ ("aspect_ratio" :> EnumField(X, "aspect_ratio", AspectRatio, "1:1"))

\* @validator('aspect_ratio', always=True); v is None or Some(ratio),
\* values the dict of the fields validated so far
validate_aspect_ratio(v, values) ==
    IF Get(values, "mode") = Some("image-to-image") THEN FieldOk(None)
    ELSE IF v # None THEN FieldOk(v)
    ELSE FieldOk(Some("1:1"))

\* a faulty validate_strength: it never asks for a strength
validate_strength_lenient(v, values) == FieldOk(v)

\* @validator('strength', always=True)
validate_strength(v, values) ==
    IF Get(values, "mode") = Some("image-to-image") /\ v = None THEN FieldError
    ELSE FieldOk(v)

SD35ImageRequest(X) ==
    LET mode   == EnumField(X, "mode", GenerationMode, "text-to-image")
        values == IF mode.err THEN EmptyDict ELSE ("mode" :> mode.val[1])
        ar     == EnumField(X, "aspect_ratio", AspectRatio, "1:1")
        st     == RangeField(X, "strength", None, 0, 1000)
    IN  BaseGenerationRequest(X)
        @@ ("mode" :> mode)
        @@ ("model" :> EnumField(X, "model", SD35Model, "sd3.5-large"))
        @@ ("aspect_ratio" :> IF ar.err THEN ar ELSE validate_aspect_ratio(ar.val, values))
        @@ ("strength" :> IF st.err THEN st ELSE validate_strength(st.val, values))

UltraImageRequest(X) ==
    BaseGenerationRequest(X)
    @@ ("aspect_ratio" :> EnumField(X, "aspect_ratio", AspectRatio, "1:1"))
    @@ ("strength" :> RangeField(X, "strength", None, 0, 1000))

\* a faulty BaseControlRequest: control_strength defaults to 0.5
BaseControlRequest_half(X) ==
    BaseGenerationRequest(X)
    @@ ("control_strength" :> RangeField(X, "control_strength", Some(500), 0, 1000))

BaseControlRequest(X) ==
    BaseGenerationRequest(X)
    @@ ("control_strength" :> RangeField(X, "control_strength", Some(700), 0, 1000))

SketchRequest(X) == BaseControlRequest(X)

StructureRequest(X) == BaseControlRequest(X)

StyleGuideRequest(X) ==
    BaseControlRequest(X)
    @@ ("fidelity" :> RangeField(X, "fidelity", Some(500), 0, 1000))

StyleTransferRequest(X) ==
    BaseGenerationRequest(X)
    @@ ("style_strength" :> RangeField(X, "style_strength", Some(1000), 0, 1000))
    @@ ("composition_fidelity" :> RangeField(X, "composition_fidelity", Some(900), 0, 1000))
    @@ ("change_strength" :> RangeField(X, "change_strength", Some(900), 100, 1000))

\* the fields that failed validation
FieldErrors(fields) == {f \in DOMAIN fields : fields[f].err}

\* Model(**X): the model object (every field, None or Some(value)) when no field
\* failed, else pydantic's ValidationError naming the fields that failed
Construct(fields) ==
    IF FieldErrors(fields) # {}
    THEN [ok |-> FALSE, error |-> "ValidationError", fields |-> FieldErrors(fields)]
    ELSE [ok |-> TRUE, model |-> [f \in DOMAIN fields |-> fields[f].val]]

\* .dict(exclude_none=True)
dict_exclude_none(model) ==
    [f \in {g \in DOMAIN model : model[g] # None} |-> model[f][1]]

\* Model(**X).dict(exclude_none=True), or the ValidationError
Normalized(fields) ==
    LET m == Construct(fields)
    IN  IF m.ok THEN [ok |-> TRUE, out |-> dict_exclude_none(m.model)] ELSE m

validate_request_for_model(model_type, request_data) ==
    CASE model_type = "core"           -> Normalized(CoreImageRequest(request_data))
      [] model_type = "sd35"           -> Normalized(SD35ImageRequest(request_data))
      [] model_type = "ultra"          -> Normalized(UltraImageRequest(request_data))
      [] model_type = "sketch"         -> Normalized(SketchRequest(request_data))
      [] model_type = "structure"      -> Normalized(StructureRequest(request_data))
      [] model_type = "style_guide"    -> Normalized(StyleGuideRequest(request_data))
      [] model_type = "style_transfer" -> Normalized(StyleTransferRequest(request_data))
      [] OTHER -> [ok |-> FALSE, error |-> "ValueError", fields |-> {}]

---------------------------------------------------------------------------
(* The raw requests the normalizer is applied to *)

\* the values of the knobs limited to [0.0, 1.0], and of change_strength
UnitKnobVals == {-1, 0, 500, 1000, 1001}

ChangeKnobVals == {0, 99, 100, 1000, 1001}

PromptVals ==
    StrsOfRuns(MaxRuns)
    \cup { <<Run(FALSE, PromptMaxLength)>>, <<Run(TRUE, 1), Run(FALSE, PromptMaxLength)>> }

\* the values a caller may give a field
FieldVals(f) ==
    CASE f = "prompt"          -> PromptVals
      [] f = "negative_prompt" -> {EmptyStr, <<Run(TRUE, 1), Run(FALSE, 1)>>}
      [] f = "output_format"   -> {"jpeg", "gif"}
      [] f = "style_preset"    -> {"", "anime"}
      [] f = "seed"            -> {-1, SeedMax}
      [] f = "aspect_ratio"    -> {"16:9", "5:1"}
      [] f = "mode"            -> {"text-to-image", "image-to-image", "inpaint"}
      [] f = "model"           -> {"sd3.5-medium", "sd3"}
      [] f = "change_strength" -> ChangeKnobVals
      [] OTHER                 -> UnitKnobVals

RECURSIVE RawDicts(_, _)
\* every dict that supplies at most k of the fields fs
RawDicts(fs, k) ==
    IF fs = <<>> \/ k = 0 THEN {EmptyDict}
    ELSE RawDicts(Tail(fs), k)
         \cup { (Head(fs) :> v) @@ d : v \in FieldVals(Head(fs)), d \in RawDicts(Tail(fs), k - 1) }

\* the tags validate_request_for_model is called with: the seven variants and
\* one it does not know
CalledTags == VariantTags \cup {"sdxl"}

---------------------------------------------------------------------------
(* Image files and the two image validators *)

MaxImageBytes == 50 * 1024 * 1024

MinDimension == 64

MaxPixels == 9437184

AllowedImageTypes == {"image/jpeg", "image/png", "image/webp"}

Max(a, b) == IF a >= b THEN a ELSE b

Min(a, b) == IF a <= b THEN a ELSE b

\* a faulty ratio check: >= 2.5 instead of > 2.5
RatioExceeded_inclusive(width, height) == 2 * Max(width, height) >= 5 * Min(width, height)

\* max(width, height) / min(width, height) > 2.5, on integers: for the sizes
\* that reach this check (both at least 64, product at most 9,437,184) the
\* float quotient is far from 2.5 unless it is exactly 2.5
RatioExceeded(width, height) == 2 * Max(width, height) > 5 * Min(width, height)

\* an uploaded file: its declared MIME type, its byte size, whether PIL can
\* open it, and the size PIL reports
ImageFile(t, n, d, w, h) == [type |-> t, size |-> n, decodable |-> d, width |-> w, height |-> h]

ImageDims == {63, 64, 160, 161, 3072, 3073}

\* widths and heights: every pair of ImageDims, and shapes that break two
\* geometric rules at once
ImageShapes ==
    (ImageDims \X ImageDims)
    \cup {<<63, 150000>>, <<150000, 63>>, <<1000, 10000>>, <<10000, 1000>>}

ImageSizes == {1, MaxImageBytes, MaxImageBytes + 1}

ImageFiles ==
    { ImageFile(t, n, TRUE, wh[1], wh[2]) :
        t \in {"image/png", "image/gif"}, n \in ImageSizes, wh \in ImageShapes }
    \cup { ImageFile(t, n, FALSE, 0, 0) : t \in {"image/png", "image/gif"}, n \in ImageSizes }

\* a faulty validate_image_file: the pixel count is checked before the
\* minimum size
validate_image_file_pixels_first(uploaded_file) ==
    IF uploaded_file = None THEN [valid |-> FALSE, message |-> "unset"]
    ELSE LET f == uploaded_file[1] IN
    IF f.type \notin AllowedImageTypes THEN [valid |-> FALSE, message |-> "type"]
    ELSE IF f.size > MaxImageBytes THEN [valid |-> FALSE, message |-> "size"]
    ELSE IF ~f.decodable THEN [valid |-> FALSE, message |-> "unreadable"]
    ELSE IF f.width * f.height > MaxPixels THEN [valid |-> FALSE, message |-> "max_pixels"]
    ELSE IF f.width < MinDimension \/ f.height < MinDimension
         THEN [valid |-> FALSE, message |-> "min_dimension"]
    ELSE IF RatioExceeded(f.width, f.height) THEN [valid |-> FALSE, message |-> "aspect_ratio"]
    ELSE [valid |-> TRUE, message |-> "valid"]

\* utils/file_handler.py validate_image_file(uploaded_file); uploaded_file is
\* None or Some(file); the message is named after the rule that produced it
validate_image_file(uploaded_file) ==
    IF uploaded_file = None THEN [valid |-> FALSE, message |-> "unset"]
    ELSE LET f == uploaded_file[1] IN
    IF f.type \notin AllowedImageTypes THEN [valid |-> FALSE, message |-> "type"]
    ELSE IF f.size > MaxImageBytes THEN [valid |-> FALSE, message |-> "size"]
    ELSE IF ~f.decodable THEN [valid |-> FALSE, message |-> "unreadable"]
    ELSE IF f.width < MinDimension \/ f.height < MinDimension
         THEN [valid |-> FALSE, message |-> "min_dimension"]
    ELSE IF f.width * f.height > MaxPixels THEN [valid |-> FALSE, message |-> "max_pixels"]
    ELSE IF RatioExceeded(f.width, f.height) THEN [valid |-> FALSE, message |-> "aspect_ratio"]
    ELSE [valid |-> TRUE, message |-> "valid"]

\* StabilityClient.validate_image_file(image_file): image_file is a file
\* object positioned anywhere; its declared MIME type is not part of it
StabilityClient_validate_image_file(f) ==
    IF f.size > MaxImageBytes THEN [valid |-> FALSE, error |-> "size"]
    ELSE IF ~f.decodable THEN [valid |-> FALSE, error |-> "unreadable"]
    ELSE IF f.width < MinDimension \/ f.height < MinDimension
         THEN [valid |-> FALSE, error |-> "min_dimension"]
    ELSE IF f.width * f.height > MaxPixels THEN [valid |-> FALSE, error |-> "max_pixels"]
    ELSE IF RatioExceeded(f.width, f.height) THEN [valid |-> FALSE, error |-> "aspect_ratio"]
    ELSE [valid |-> TRUE,
          info |-> [width |-> f.width, height |-> f.height, size_bytes |-> f.size]]

---------------------------------------------------------------------------
(* The remote API and the HTTP requests *)

\* what the remote answers when it is asked: a response (its status and what
\* its body holds), a failure of the transport (requests.RequestException), or
\* nothing, ever
Response(status, body) == [kind |-> "response", status |-> status, body |-> body]

TransportError == [kind |-> "transport_error", status |-> 0, body |-> "none"]

\* the remote accepts the connection and never sends a response
Silent == [kind |-> "silent", status |-> 0, body |-> "none"]

\* the bodies: an image, nothing, a JSON object with a message field, one
\* whose message reads as StabilityClient's own network error text does, a
\* JSON object without a message field, text that is not JSON
Remotes ==
    { Response(200, "payload"), Response(202, "empty"),
      Response(400, "json_message"), Response(404, "json_no_message"),
      Response(500, "text"), Response(502, "empty"),
      Response(500, "json_message_network_text"),
      TransportError, Silent }

\* a call that never returns
Blocked == [kind |-> "blocked"]

\* a value a method returns, and an exception it raises
Return(v) == [kind |-> "return", value |-> v]

Raise(exc, message, status_code) ==
    [kind |-> "raise", exc |-> exc, message |-> message, status_code |-> status_code]

\* a dict with the key k only when cond holds
KeyIf(cond, k, v) == IF cond THEN (k :> v) ELSE EmptyDict

\* truth value of an optional enum-valued text: None and "" are false
Truthy(v) == v # None /\ v[1] # ""

\* truth value of an optional str (a prompt): None and "" are false
StrOptTruthy(v) == v # None /\ StrTruthy(v[1])

---------------------------------------------------------------------------
(* stability_client.py: StabilityClient *)

\* the image arguments a caller passes: a path that opens, a path that does
\* not, "", bytes, b"", a file object, a PIL image, any other object
ImageKinds == {"path", "missing_path", "empty_path", "bytes", "empty_bytes",
               "file", "pil", "other"}

ImageArgs == {None} \cup {Some(k) : k \in ImageKinds}

\* truth value of an image argument: None, "" and b"" are false
ImageTruthy(image) == image # None /\ image[1] \notin {"empty_path", "empty_bytes"}

\* a faulty _prepare_image_file: None is wrapped like bytes
StabilityClient_prepare_image_file_wraps_none(image) ==
    IF image # None /\ image[1] \in {"missing_path", "empty_path"}
    THEN Raise("FileNotFoundError", "open", None)
    ELSE IF image # None /\ image[1] = "other"
    THEN Raise("ValueError", "unsupported_image", None)
    ELSE Return("file")

\* StabilityClient._prepare_image_file(image): the file object handed to
\* requests, or the exception
StabilityClient_prepare_image_file(image) ==
    IF image # None /\ image[1] = "path" THEN Return("file")
    ELSE IF image # None /\ image[1] \in {"missing_path", "empty_path"}
         THEN Raise("FileNotFoundError", "open", None)
    ELSE IF image # None /\ image[1] \in {"bytes", "empty_bytes"} THEN Return("file")
    ELSE IF image # None /\ image[1] = "pil" THEN Return("file")
    ELSE IF image # None /\ image[1] = "file" THEN Return("file")
    ELSE Raise("ValueError", "unsupported_image", None)

\* the message StabilityClientError carries for a response that is neither
\* 200 nor 202
ErrorMessage(response) ==
    CASE response.body = "json_message"    -> "json.message"
      [] response.body = "json_message_network_text" -> "network"
      [] response.body = "json_no_message" -> "unknown_error"
      [] response.body = "empty"           -> "http_status"
      [] OTHER                             -> "response.text"

\* a faulty _make_request: after a network error the request is sent again
StabilityClient_make_request_retrying(method, endpoint, data, files, rem) ==
    LET req == [client |-> "StabilityClient", method |-> method, endpoint |-> endpoint,
                data |-> data, files |-> files, accept |-> "image/*",
                authorization |-> "Bearer", timeout |-> Some(60)]
    IN  IF method \notin {"POST", "GET"}
        THEN [http |-> <<>>, result |-> Raise("ValueError", "unsupported_method", None)]
        ELSE IF rem.kind = "transport_error" \/ rem.kind = "silent"
        THEN [http |-> <<req, req>>,
              result |-> Raise("StabilityClientError", "network", None)]
        ELSE IF rem.status = 200 \/ rem.status = 202
        THEN [http |-> <<req>>, result |-> Return(rem)]
        ELSE [http |-> <<req>>,
              result |-> Raise("StabilityClientError", ErrorMessage(rem), Some(rem.status))]

\* StabilityClient._make_request: the requests it sends and what it returns
\* or raises, given the remote's answer; with timeout=60 a remote that never
\* answers ends in requests.Timeout, a RequestException
StabilityClient_make_request(method, endpoint, data, files, rem) ==
    LET req == [client |-> "StabilityClient", method |-> method, endpoint |-> endpoint,
                data |-> data, files |-> files, accept |-> "image/*",
                authorization |-> "Bearer", timeout |-> Some(60)]
    IN  IF method \notin {"POST", "GET"}
        THEN [http |-> <<>>, result |-> Raise("ValueError", "unsupported_method", None)]
        ELSE IF rem.kind = "transport_error" \/ rem.kind = "silent"
        THEN [http |-> <<req>>, result |-> Raise("StabilityClientError", "network", None)]
        ELSE IF rem.status = 200 \/ rem.status = 202
        THEN [http |-> <<req>>, result |-> Return(rem)]
        ELSE [http |-> <<req>>,
              result |-> Raise("StabilityClientError", ErrorMessage(rem), Some(rem.status))]

\* the tail of every generation method: response = self._make_request(...);
\* return response.content
PostAndReturnContent(endpoint, data, files, rem) ==
    LET r == StabilityClient_make_request("POST", endpoint, data, files, rem)
    IN  IF r.result.kind = "return"
        THEN [http |-> r.http, result |-> Return(r.result.value.body)]
        ELSE r

\* a faulty CommonData: seed is added when it is truthy, so seed 0 is lost
CommonData_seed_truthy(a) ==
    KeyIf(Truthy(a.style_preset), "style_preset", a.style_preset[1])
    @@ KeyIf(StrOptTruthy(a.negative_prompt), "negative_prompt", a.negative_prompt[1])
    @@ KeyIf(a.seed # None /\ a.seed[1] # 0, "seed", a.seed[1])

\* the optional form fields every method adds the same way
CommonData(a) ==
    KeyIf(Truthy(a.style_preset), "style_preset", a.style_preset[1])
    @@ KeyIf(StrOptTruthy(a.negative_prompt), "negative_prompt", a.negative_prompt[1])
    @@ KeyIf(a.seed # None, "seed", a.seed[1])

\* StabilityClient.generate_core_image(prompt, aspect_ratio, output_format,
\* style_preset, negative_prompt, seed)
StabilityClient_generate_core_image(a, rem) ==
    LET data ==
            [prompt |-> a.prompt]
            @@ KeyIf(Truthy(Some(a.aspect_ratio)), "aspect_ratio", a.aspect_ratio)
            @@ KeyIf(Truthy(Some(a.output_format)), "output_format", a.output_format)
            @@ CommonData(a)
    IN  PostAndReturnContent("/v2beta/stable-image/generate/core", data, "none" :> "", rem)

\* StabilityClient.generate_sd35_image(prompt, mode, model, image, strength,
\* aspect_ratio, output_format, style_preset, negative_prompt, seed)
StabilityClient_generate_sd35_image(a, rem) ==
    IF a.mode = "image-to-image" /\ a.image = None
    THEN [http |-> <<>>, result |-> Raise("ValueError", "image_required", None)]
    ELSE IF a.mode = "image-to-image" /\ a.strength = None
    THEN [http |-> <<>>, result |-> Raise("ValueError", "strength_required", None)]
    ELSE
    LET data ==
            [prompt |-> a.prompt, mode |-> a.mode, model |-> a.model]
            @@ KeyIf(a.mode = "image-to-image", "strength", a.strength[1])
            @@ KeyIf(a.mode # "image-to-image" /\ Truthy(a.aspect_ratio),
                     "aspect_ratio", a.aspect_ratio[1])
            @@ KeyIf(Truthy(Some(a.output_format)), "output_format", a.output_format)
            @@ CommonData(a)
        prepared == StabilityClient_prepare_image_file(a.image)
    IN  IF a.mode = "image-to-image" /\ ImageTruthy(a.image)
        THEN IF prepared.kind = "raise"
             THEN [http |-> <<>>, result |-> prepared]
             ELSE PostAndReturnContent("/v2beta/stable-image/generate/sd3", data,
                                       "image" :> prepared.value, rem)
        ELSE PostAndReturnContent("/v2beta/stable-image/generate/sd3", data,
                                  "none" :> "", rem)

\* StabilityClient.generate_ultra_image(prompt, image, strength, aspect_ratio,
\* output_format, style_preset, negative_prompt, seed)
StabilityClient_generate_ultra_image(a, rem) ==
    LET data ==
            [prompt |-> a.prompt]
            @@ KeyIf(Truthy(Some(a.aspect_ratio)), "aspect_ratio", a.aspect_ratio)
            @@ KeyIf(Truthy(Some(a.output_format)), "output_format", a.output_format)
            @@ CommonData(a)
            @@ KeyIf(a.strength # None, "strength", a.strength[1])
        prepared == StabilityClient_prepare_image_file(a.image)
    IN  IF ImageTruthy(a.image)
        THEN IF prepared.kind = "raise"
             THEN [http |-> <<>>, result |-> prepared]
             ELSE PostAndReturnContent("/v2beta/stable-image/generate/ultra", data,
                                       "image" :> prepared.value, rem)
        ELSE PostAndReturnContent("/v2beta/stable-image/generate/ultra", data,
                                  "none" :> "", rem)

\* StabilityClient.sketch_to_image(prompt, image, control_strength,
\* output_format, style_preset, negative_prompt, seed)
StabilityClient_sketch_to_image(a, rem) ==
    LET data ==
            [prompt |-> a.prompt, control_strength |-> a.control_strength]
            @@ KeyIf(Truthy(Some(a.output_format)), "output_format", a.output_format)
            @@ CommonData(a)
        image_file == StabilityClient_prepare_image_file(a.image)
    IN  IF image_file.kind = "raise" THEN [http |-> <<>>, result |-> image_file]
        ELSE PostAndReturnContent("/v2beta/stable-image/control/sketch", data,
                                  "image" :> image_file.value, rem)

\* StabilityClient.structure_control(prompt, image, control_strength,
\* output_format, style_preset, negative_prompt, seed)
StabilityClient_structure_control(a, rem) ==
    LET data ==
            [prompt |-> a.prompt, control_strength |-> a.control_strength]
            @@ KeyIf(Truthy(Some(a.output_format)), "output_format", a.output_format)
            @@ CommonData(a)
        image_file == StabilityClient_prepare_image_file(a.image)
    IN  IF image_file.kind = "raise" THEN [http |-> <<>>, result |-> image_file]
        ELSE PostAndReturnContent("/v2beta/stable-image/control/structure", data,
                                  "image" :> image_file.value, rem)

\* a faulty style_guide: it posts to the path the backend serves it under
StabilityClient_style_guide_route(a, rem) ==
    LET data ==
            [prompt |-> a.prompt, fidelity |-> a.fidelity]
            @@ KeyIf(Truthy(Some(a.output_format)), "output_format", a.output_format)
            @@ KeyIf(Truthy(Some(a.aspect_ratio)), "aspect_ratio", a.aspect_ratio)
            @@ CommonData(a)
        image_file == StabilityClient_prepare_image_file(a.image)
    IN  IF image_file.kind = "raise" THEN [http |-> <<>>, result |-> image_file]
        ELSE PostAndReturnContent("/v2beta/stable-image/control/style-guide", data,
                                  "image" :> image_file.value, rem)

\* StabilityClient.style_guide(prompt, image, fidelity, output_format,
\* aspect_ratio, style_preset, negative_prompt, seed)
StabilityClient_style_guide(a, rem) ==
    LET data ==
            [prompt |-> a.prompt, fidelity |-> a.fidelity]
            @@ KeyIf(Truthy(Some(a.output_format)), "output_format", a.output_format)
            @@ KeyIf(Truthy(Some(a.aspect_ratio)), "aspect_ratio", a.aspect_ratio)
            @@ CommonData(a)
        image_file == StabilityClient_prepare_image_file(a.image)
    IN  IF image_file.kind = "raise" THEN [http |-> <<>>, result |-> image_file]
        ELSE PostAndReturnContent("/v2beta/stable-image/control/style", data,
                                  "image" :> image_file.value, rem)

\* StabilityClient.style_transfer(init_image, style_image, prompt,
\* style_strength, composition_fidelity, change_strength, output_format,
\* negative_prompt, seed)
StabilityClient_style_transfer(a, rem) ==
    LET data ==
            [style_strength |-> a.style_strength,
             composition_fidelity |-> a.composition_fidelity,
             change_strength |-> a.change_strength]
            @@ KeyIf(StrOptTruthy(a.prompt), "prompt", a.prompt[1])
            @@ KeyIf(Truthy(Some(a.output_format)), "output_format", a.output_format)
            @@ KeyIf(StrOptTruthy(a.negative_prompt), "negative_prompt", a.negative_prompt[1])
            @@ KeyIf(a.seed # None, "seed", a.seed[1])
        init_file  == StabilityClient_prepare_image_file(a.init_image)
        style_file == StabilityClient_prepare_image_file(a.style_image)
    IN  IF init_file.kind = "raise" THEN [http |-> <<>>, result |-> init_file]
        ELSE IF style_file.kind = "raise" THEN [http |-> <<>>, result |-> style_file]
        ELSE PostAndReturnContent("/v2beta/stable-image/control/style-transfer", data,
                                  [init_image |-> init_file.value,
                                   style_image |-> style_file.value], rem)

---------------------------------------------------------------------------
(* utils/api_client.py: StabilityAPIClient *)

\* StabilityAPIClient(api_key): the object __init__ leaves
StabilityAPIClient_init == [headers |-> [authorization |-> "Bearer", accept |-> "image/*"]]

\* a faulty _make_request: the call's headers are merged into self.headers
StabilityAPIClient_make_request_in_place(self, method, endpoint, files, data, headers, rem) ==
    LET request_headers == headers @@ self.headers
        after == [self EXCEPT !.headers = request_headers]
        req == [client |-> "StabilityAPIClient", method |-> method, endpoint |-> endpoint,
                data |-> data, files |-> files, accept |-> request_headers.accept,
                authorization |-> request_headers.authorization, timeout |-> None]
    IN  IF method \notin {"POST", "GET"}
        THEN [http |-> <<>>, self |-> after,
              result |-> Raise("ValueError", "unsupported_method", None)]
        ELSE IF rem.kind = "transport_error"
        THEN [http |-> <<req>>, self |-> after,
              result |-> Raise("RequestException", "network", None)]
        ELSE IF rem.kind = "silent"
        THEN [http |-> <<req>>, self |-> after, result |-> Blocked]
        ELSE [http |-> <<req>>, self |-> after, result |-> Return(rem)]

\* StabilityAPIClient._make_request: one request with a copy of the client's
\* headers updated by the call's; self is the object, returned as the call
\* leaves it; the response whatever its status, or the
\* requests.RequestException raised again; no timeout is passed, so the call
\* waits as long as the remote stays silent
StabilityAPIClient_make_request(self, method, endpoint, files, data, headers, rem) ==
    LET request_headers == headers @@ self.headers
        req == [client |-> "StabilityAPIClient", method |-> method, endpoint |-> endpoint,
                data |-> data, files |-> files, accept |-> request_headers.accept,
                authorization |-> request_headers.authorization, timeout |-> None]
    IN  IF method \notin {"POST", "GET"}
        THEN [http |-> <<>>, self |-> self,
              result |-> Raise("ValueError", "unsupported_method", None)]
        ELSE IF rem.kind = "transport_error"
        THEN [http |-> <<req>>, self |-> self,
              result |-> Raise("RequestException", "network", None)]
        ELSE IF rem.kind = "silent"
        THEN [http |-> <<req>>, self |-> self, result |-> Blocked]
        ELSE [http |-> <<req>>, self |-> self, result |-> Return(rem)]

\* generate_core_image(prompt, **kwargs)
StabilityAPIClient_generate_core_image(self, prompt, kwargs, rem) ==
    StabilityAPIClient_make_request(self, "POST", "/v2beta/stable-image/generate/core",
        "none" :> "", kwargs @@ ("prompt" :> prompt), EmptyDict, rem)

\* generate_sd35_image(prompt, image_file=None, **kwargs)
StabilityAPIClient_generate_sd35_image(self, prompt, image_file, kwargs, rem) ==
    StabilityAPIClient_make_request(self, "POST", "/v2beta/stable-image/generate/sd3",
        IF ImageTruthy(image_file) /\ Get(kwargs, "mode") = Some("image-to-image")
        THEN "image" :> image_file[1] ELSE "none" :> "",
        kwargs @@ ("prompt" :> prompt), EmptyDict, rem)

\* a faulty generate_ultra_image: the placeholder is sent along with the image
StabilityAPIClient_generate_ultra_image_both(self, prompt, image_file, kwargs, rem) ==
    StabilityAPIClient_make_request(self, "POST", "/v2beta/stable-image/generate/ultra",
        ("none" :> "") @@ KeyIf(ImageTruthy(image_file), "image", image_file[1]),
        kwargs @@ ("prompt" :> prompt), EmptyDict, rem)

\* generate_ultra_image(prompt, image_file=None, **kwargs)
StabilityAPIClient_generate_ultra_image(self, prompt, image_file, kwargs, rem) ==
    StabilityAPIClient_make_request(self, "POST", "/v2beta/stable-image/generate/ultra",
        IF ImageTruthy(image_file) THEN "image" :> image_file[1] ELSE "none" :> "",
        kwargs @@ ("prompt" :> prompt), EmptyDict, rem)

\* sketch_to_image(prompt, image_file, **kwargs)
StabilityAPIClient_sketch_to_image(self, prompt, image_file, kwargs, rem) ==
    StabilityAPIClient_make_request(self, "POST", "/v2beta/stable-image/control/sketch",
        "image" :> image_file, kwargs @@ ("prompt" :> prompt), EmptyDict, rem)

\* structure_control(prompt, image_file, **kwargs)
StabilityAPIClient_structure_control(self, prompt, image_file, kwargs, rem) ==
    StabilityAPIClient_make_request(self, "POST", "/v2beta/stable-image/control/structure",
        "image" :> image_file, kwargs @@ ("prompt" :> prompt), EmptyDict, rem)

\* style_guide(prompt, image_file, **kwargs)
StabilityAPIClient_style_guide(self, prompt, image_file, kwargs, rem) ==
    StabilityAPIClient_make_request(self, "POST", "/v2beta/stable-image/control/style",
        "image" :> image_file, kwargs @@ ("prompt" :> prompt), EmptyDict, rem)

\* style_transfer(init_image, style_image, **kwargs)
StabilityAPIClient_style_transfer(self, init_image, style_image, kwargs, rem) ==
    StabilityAPIClient_make_request(self, "POST", "/v2beta/stable-image/control/style-transfer",
        [init_image |-> init_image, style_image |-> style_image], kwargs, EmptyDict, rem)

\* text_to_audio(prompt, **kwargs)
StabilityAPIClient_text_to_audio(self, prompt, kwargs, rem) ==
    StabilityAPIClient_make_request(self, "POST", "/v2beta/audio/stable-audio-2/text-to-audio",
        "none" :> "", kwargs @@ ("prompt" :> prompt), [accept |-> "audio/*"], rem)

\* audio_to_audio(prompt, audio_file, **kwargs)
StabilityAPIClient_audio_to_audio(self, prompt, audio_file, kwargs, rem) ==
    StabilityAPIClient_make_request(self, "POST", "/v2beta/audio/stable-audio-2/audio-to-audio",
        "audio" :> audio_file, kwargs @@ ("prompt" :> prompt), [accept |-> "audio/*"], rem)

\* get_generation_result(generation_id)
StabilityAPIClient_get_generation_result(self, generation_id, rem) ==
    StabilityAPIClient_make_request(self, "GET", "/v2beta/results/" \o generation_id,
        None, None, EmptyDict, rem)

\* fast_3d(image_file, **kwargs)
StabilityAPIClient_fast_3d(self, image_file, kwargs, rem) ==
    StabilityAPIClient_make_request(self, "POST", "/v2beta/3d/stable-fast-3d",
        "image" :> image_file, kwargs, EmptyDict, rem)

\* point_aware_3d(image_file, **kwargs)
StabilityAPIClient_point_aware_3d(self, image_file, kwargs, rem) ==
    StabilityAPIClient_make_request(self, "POST", "/v2beta/3d/stable-point-aware-3d",
        "image" :> image_file, kwargs, EmptyDict, rem)

---------------------------------------------------------------------------
(* utils/file_handler.py: audio validation and upload processing *)

AllowedAudioTypes == {"audio/mpeg", "audio/wav", "audio/mp3"}

AudioFile(t, n) == [type |-> t, size |-> n]

\* validate_audio_file(uploaded_file)
validate_audio_file(uploaded_file) ==
    IF uploaded_file = None THEN [valid |-> FALSE, message |-> "unset"]
    ELSE IF uploaded_file[1].type \notin AllowedAudioTypes
         THEN [valid |-> FALSE, message |-> "type"]
    ELSE IF uploaded_file[1].size > MaxImageBytes THEN [valid |-> FALSE, message |-> "size"]
    ELSE [valid |-> TRUE, message |-> "valid"]

\* process_uploaded_image(uploaded_file): the BytesIO it returns (or None) and
\* the st.error messages it shows
process_uploaded_image(uploaded_file) ==
    IF uploaded_file = None THEN [data |-> None, errors |-> <<>>]
    ELSE IF ~validate_image_file(uploaded_file).valid
         THEN [data |-> None, errors |-> <<validate_image_file(uploaded_file).message>>]
    ELSE [data |-> Some("file"), errors |-> <<>>]

\* process_uploaded_audio(uploaded_file)
process_uploaded_audio(uploaded_file) ==
    IF uploaded_file = None THEN [data |-> None, errors |-> <<>>]
    ELSE IF ~validate_audio_file(uploaded_file).valid
         THEN [data |-> None, errors |-> <<validate_audio_file(uploaded_file).message>>]
    ELSE [data |-> Some("file"), errors |-> <<>>]

---------------------------------------------------------------------------
(* main.py: the Streamlit script run in which a button is pressed *)

\* what a script run leaves on the page: the st.error messages in order, and
\* whether a generated result was displayed
UiResult(errors, displayed) == [kind |-> "ui", errors |-> errors, displayed |-> displayed]

\* a run that called the client: show_api_response_info and the display of a
\* 200 response, or the except branch; r is the client call's outcome
UiAfterCall(r, errors) ==
    IF r.result = Blocked THEN r
    ELSE IF r.result.kind = "raise"
    THEN [http |-> r.http, result |-> UiResult(errors \o <<"request_failed", "exception">>, FALSE)]
    ELSE IF r.result.value.status = 200
    THEN [http |-> r.http, result |-> UiResult(errors, TRUE)]
    ELSE IF r.result.value.status = 202
    THEN [http |-> r.http, result |-> UiResult(errors, FALSE)]
    ELSE [http |-> r.http, result |-> UiResult(errors \o <<"api_error">>, FALSE)]

\* a run that stopped before calling the client
UiNoCall(errors) == [http |-> <<>>, result |-> UiResult(errors, FALSE)]

\* "Image" in generation_mode and generation_mode != "Text-to-Image"
IsImageMode(generation_mode) == generation_mode # "Text-to-Image"

\* create_basic_image_controls with the widgets left at their first option
BasicControls(show_aspect_ratio) ==
    [output_format |-> "png", style_preset |-> None, seed |-> None]
    @@ KeyIf(show_aspect_ratio, "aspect_ratio", "1:1")

\* the "🎨 이미지 생성" page, button pressed (main.py 129-298)
ImageGenerationRun(a, rem) ==
    LET image_mode == IsImageMode(a.generation_mode)
        processed  == process_uploaded_image(a.uploaded_input_image)
        input_image_data == processed.data
        show_aspect == ~(a.sub_function = "3.5" /\ a.generation_mode = "Image-to-Image")
        basic_controls ==
            KeyIf(image_mode, "strength", IF a.sub_function = "3.5" THEN 800 ELSE 500)
            @@ BasicControls(show_aspect)
        advanced_controls ==
            IF a.sub_function = "3.5"
            THEN [cfg_scale |-> 7000, model |-> "sd3.5-large",
                  mode |-> IF a.generation_mode = "Image-to-Image"
                           THEN "image-to-image" ELSE "text-to-image"]
            ELSE EmptyDict
        params == KeyIf(StrTruthy(strip(a.negative_prompt)), "negative_prompt", a.negative_prompt)
                  @@ advanced_controls @@ basic_controls
    IN  IF ~StrTruthy(strip(a.prompt))
        THEN UiNoCall(processed.errors \o <<"prompt_required">>)
        ELSE IF image_mode /\ a.uploaded_input_image = None
        THEN UiNoCall(processed.errors \o <<"image_required">>)
        ELSE IF a.sub_function = "Core"
        THEN UiAfterCall(StabilityAPIClient_generate_core_image(StabilityAPIClient_init, a.prompt, params, rem),
                         processed.errors)
        ELSE IF a.sub_function = "3.5"
        THEN UiAfterCall(StabilityAPIClient_generate_sd35_image(StabilityAPIClient_init, a.prompt,
                            IF a.generation_mode = "Image-to-Image"
                            THEN input_image_data ELSE None, params, rem),
                         processed.errors)
        ELSE UiAfterCall(StabilityAPIClient_generate_ultra_image(StabilityAPIClient_init, a.prompt,
                            IF a.generation_mode = "Text+Image-to-Image"
                            THEN input_image_data ELSE None, params, rem),
                         processed.errors)

\* create_style_transfer_controls with the sliders left where they start
StyleTransferControls ==
    [style_strength |-> 1000, composition_fidelity |-> 900, change_strength |-> 900]

\* the "🎛️ 이미지 제어/편집" page, button pressed (main.py 300-447)
ControlEditRun(a, rem) ==
    IF a.sub_function = "Style Transfer"
    THEN LET init_data  == process_uploaded_image(a.init_image)
             style_data == process_uploaded_image(a.style_image)
             params == StyleTransferControls @@ [output_format |-> "webp", seed |-> None]
         IN  IF a.init_image = None \/ a.style_image = None
             THEN UiNoCall(<<"images_required">>)
             ELSE IF init_data.data # None /\ style_data.data # None
             THEN UiAfterCall(StabilityAPIClient_style_transfer(StabilityAPIClient_init, init_data.data[1],
                                  style_data.data[1], params, rem), <<>>)
             ELSE UiNoCall(init_data.errors \o style_data.errors)
    ELSE LET image_data == process_uploaded_image(a.uploaded_image)
             advanced_controls ==
                 IF a.sub_function = "Style Guide"
                 THEN [cfg_scale |-> 7000, fidelity |-> 500]
                 ELSE [cfg_scale |-> 7000, control_strength |-> 700]
             params == KeyIf(StrTruthy(strip(a.negative_prompt)), "negative_prompt",
                             a.negative_prompt)
                       @@ advanced_controls @@ BasicControls(TRUE)
         IN  IF a.uploaded_image = None THEN UiNoCall(<<"image_required">>)
             ELSE IF ~StrTruthy(strip(a.prompt)) THEN UiNoCall(<<"prompt_required">>)
             ELSE IF image_data.data = None THEN UiNoCall(image_data.errors)
             ELSE IF a.sub_function = "Sketch"
             THEN UiAfterCall(StabilityAPIClient_sketch_to_image(StabilityAPIClient_init, a.prompt,
                                 image_data.data[1], params, rem), <<>>)
             ELSE IF a.sub_function = "Structure"
             THEN UiAfterCall(StabilityAPIClient_structure_control(StabilityAPIClient_init, a.prompt,
                                 image_data.data[1], params, rem), <<>>)
             ELSE UiAfterCall(StabilityAPIClient_style_guide(StabilityAPIClient_init, a.prompt,
                                 image_data.data[1], params, rem), <<>>)

\* create_audio_controls with the widgets left where they start
AudioControls == [output_format |-> "mp3", duration |-> 20, steps |-> 50, cfg_scale |-> 7000]

\* the "🎵 오디오 생성" page, button pressed (main.py 449-554)
AudioRun(a, rem) ==
    LET audio_data == process_uploaded_audio(a.uploaded_audio)
        params == KeyIf(StrTruthy(strip(a.negative_prompt)), "negative_prompt",
                        a.negative_prompt)
                  @@ [strength |-> 1000] @@ AudioControls
    IN  IF ~StrTruthy(strip(a.prompt)) THEN UiNoCall(<<"prompt_required">>)
        ELSE IF a.sub_function = "Audio-to-Audio" /\ a.uploaded_audio = None
        THEN UiNoCall(<<"audio_required">>)
        ELSE IF a.sub_function = "Text-to-Audio"
        THEN UiAfterCall(StabilityAPIClient_text_to_audio(StabilityAPIClient_init, a.prompt, AudioControls, rem), <<>>)
        ELSE IF audio_data.data # None
        THEN UiAfterCall(StabilityAPIClient_audio_to_audio(StabilityAPIClient_init, a.prompt, audio_data.data[1],
                                                           params, rem), <<>>)
        ELSE UiNoCall(audio_data.errors \o <<"audio_failed">>)

\* create_3d_controls with the widgets left where they start
Controls3d == [texture_resolution |-> "1024", foreground_ratio |-> 850, remesh |-> None]

\* the "🎭 3D 모델 생성" page, button pressed (main.py 556-669)
ThreeDRun(a, rem) ==
    LET shown      == validate_image_file(a.uploaded_image)
        image_data == process_uploaded_image(a.uploaded_image)
        controls_3d ==
            IF a.sub_function = "Point Aware"
            THEN [guidance_scale |-> 3000] @@ Controls3d ELSE Controls3d
        page_errors ==
            IF a.uploaded_image # None /\ ~shown.valid THEN <<shown.message>> ELSE <<>>
    IN  IF a.uploaded_image = None THEN UiNoCall(<<"image_required">>)
        ELSE IF image_data.data = None THEN UiNoCall(page_errors \o image_data.errors)
        ELSE IF a.sub_function = "Fast 3D"
        THEN UiAfterCall(StabilityAPIClient_fast_3d(StabilityAPIClient_init, image_data.data[1], controls_3d, rem),
                         page_errors)
        ELSE UiAfterCall(StabilityAPIClient_point_aware_3d(StabilityAPIClient_init, image_data.data[1], controls_3d,
                                                           rem), page_errors)

---------------------------------------------------------------------------
(* fastapi_backend_example.py *)

\* what an endpoint answers its caller
HttpAnswer(status, detail) == [kind |-> "http", status |-> status, detail |-> detail]

Upload(t, n) == [content_type |-> t, size |-> n]

\* get_stability_client(): whether a client is available, given whether the
\* global already holds one and whether STABILITY_API_KEY is set
get_stability_client(client_exists, api_key_set) ==
    IF ~client_exists /\ ~api_key_set
    THEN Raise("HTTPException", "no_api_key", Some(500))
    ELSE Return("client")

\* validate_file_upload(file)
validate_file_upload(file) ==
    IF file.content_type \notin AllowedImageTypes
    THEN Raise("HTTPException", "type", Some(400))
    ELSE IF file.size > MaxImageBytes THEN Raise("HTTPException", "size", Some(400))
    ELSE Return("ok")

\* the except clauses every endpoint ends with, applied to what the client
\* call returned or raised
EndpointAnswer(r) ==
    IF r.result.kind = "return" THEN HttpAnswer(200, r.result.value)
    ELSE IF r.result.exc = "StabilityClientError"
    THEN HttpAnswer(IF r.result.status_code # None /\ r.result.status_code[1] # 0
                    THEN r.result.status_code[1] ELSE 500, r.result.message)
    ELSE HttpAnswer(500, "generic")

\* POST /api/image/generate/core; a.request is the JSON body FastAPI parses
\* into a CoreImageRequest before the handler runs
generate_core_image_endpoint(a, rem) ==
    LET dep == get_stability_client(a.client_exists, a.api_key_set)
        request == Construct(CoreImageRequest(a.request))
        v == request.model
        call == StabilityClient_generate_core_image(
                    [prompt |-> v["prompt"][1],
                     aspect_ratio |-> v["aspect_ratio"][1],
                     output_format |-> v["output_format"][1],
                     style_preset |-> v["style_preset"],
                     negative_prompt |-> v["negative_prompt"],
                     seed |-> v["seed"]], rem)
    IN  IF dep.kind = "raise" THEN [http |-> <<>>, result |-> HttpAnswer(500, dep.message)]
        ELSE IF ~request.ok
        THEN [http |-> <<>>, result |-> HttpAnswer(422, "validation")]
        ELSE IF call.result.kind = "return"
        THEN [http |-> call.http,
              result |-> HttpAnswer(200, [success |-> TRUE, message |-> "generated",
                                          file_size_of |-> call.result.value])]
        ELSE [http |-> call.http, result |-> EndpointAnswer(call)]

\* POST /api/image/generate/sd35; a.image is None or Some(upload); the
\* ValueError of client.generate_sd35_image ends in `except Exception`
generate_sd35_image_endpoint(a, rem) ==
    LET dep == get_stability_client(a.client_exists, a.api_key_set)
        request_data ==
            [prompt |-> a.prompt, mode |-> a.mode, model |-> a.model,
             output_format |-> a.output_format]
            @@ KeyIf(Truthy(a.aspect_ratio) /\ a.mode = "text-to-image",
                     "aspect_ratio", a.aspect_ratio[1])
            @@ KeyIf(a.strength # None, "strength", a.strength[1])
            @@ KeyIf(Truthy(a.style_preset), "style_preset", a.style_preset[1])
            @@ KeyIf(StrOptTruthy(a.negative_prompt), "negative_prompt", a.negative_prompt[1])
            @@ KeyIf(a.seed # None, "seed", a.seed[1])
        validated_request == Construct(SD35ImageRequest(request_data))
        v == validated_request.model
        read_image == a.image # None /\ a.mode = "image-to-image"
        call == StabilityClient_generate_sd35_image(
                    [prompt |-> v["prompt"][1],
                     mode |-> v["mode"][1],
                     model |-> v["model"][1],
                     image |-> IF read_image THEN Some("bytes") ELSE None,
                     strength |-> v["strength"],
                     aspect_ratio |-> v["aspect_ratio"],
                     output_format |-> v["output_format"][1],
                     style_preset |-> v["style_preset"],
                     negative_prompt |-> v["negative_prompt"],
                     seed |-> v["seed"]], rem)
    IN  IF dep.kind = "raise" THEN [http |-> <<>>, result |-> HttpAnswer(500, dep.message)]
        ELSE IF ~validated_request.ok
        THEN [http |-> <<>>, result |-> HttpAnswer(400, "validation")]
        ELSE IF read_image /\ validate_file_upload(a.image[1]).kind = "raise"
        THEN [http |-> <<>>, result |-> HttpAnswer(500, "generic")]
        ELSE [http |-> call.http, result |-> EndpointAnswer(call)]

\* POST /api/image/control/sketch
sketch_to_image_endpoint(a, rem) ==
    LET dep == get_stability_client(a.client_exists, a.api_key_set)
        request_data ==
            [prompt |-> a.prompt, control_strength |-> a.control_strength,
             output_format |-> a.output_format]
            @@ KeyIf(Truthy(a.style_preset), "style_preset", a.style_preset[1])
            @@ KeyIf(StrOptTruthy(a.negative_prompt), "negative_prompt", a.negative_prompt[1])
            @@ KeyIf(a.seed # None, "seed", a.seed[1])
        validated_request == Construct(SketchRequest(request_data))
        v == validated_request.model
        call == StabilityClient_sketch_to_image(
                    [prompt |-> v["prompt"][1],
                     image |-> Some("bytes"),
                     control_strength |-> v["control_strength"][1],
                     output_format |-> v["output_format"][1],
                     style_preset |-> v["style_preset"],
                     negative_prompt |-> v["negative_prompt"],
                     seed |-> v["seed"]], rem)
    IN  IF dep.kind = "raise" THEN [http |-> <<>>, result |-> HttpAnswer(500, dep.message)]
        ELSE IF validate_file_upload(a.image).kind = "raise"
        THEN [http |-> <<>>, result |-> HttpAnswer(500, "generic")]
        ELSE IF ~validated_request.ok
        THEN [http |-> <<>>, result |-> HttpAnswer(400, "validation")]
        ELSE [http |-> call.http, result |-> EndpointAnswer(call)]

\* POST /api/image/generate/ultra; a.image is None or Some(upload)
generate_ultra_image_endpoint(a, rem) ==
    LET dep == get_stability_client(a.client_exists, a.api_key_set)
        request_data ==
            [prompt |-> a.prompt, aspect_ratio |-> a.aspect_ratio,
             output_format |-> a.output_format]
            @@ KeyIf(a.strength # None, "strength", a.strength[1])
            @@ KeyIf(Truthy(a.style_preset), "style_preset", a.style_preset[1])
            @@ KeyIf(StrOptTruthy(a.negative_prompt), "negative_prompt", a.negative_prompt[1])
            @@ KeyIf(a.seed # None, "seed", a.seed[1])
        validated_request == Construct(UltraImageRequest(request_data))
        v == validated_request.model
        call == StabilityClient_generate_ultra_image(
                    [prompt |-> v["prompt"][1],
                     image |-> IF a.image # None THEN Some("bytes") ELSE None,
                     strength |-> v["strength"],
                     aspect_ratio |-> v["aspect_ratio"][1],
                     output_format |-> v["output_format"][1],
                     style_preset |-> v["style_preset"],
                     negative_prompt |-> v["negative_prompt"],
                     seed |-> v["seed"]], rem)
    IN  IF dep.kind = "raise" THEN [http |-> <<>>, result |-> HttpAnswer(500, dep.message)]
        ELSE IF ~validated_request.ok
        THEN [http |-> <<>>, result |-> HttpAnswer(400, "validation")]
        ELSE IF a.image # None /\ validate_file_upload(a.image[1]).kind = "raise"
        THEN [http |-> <<>>, result |-> HttpAnswer(500, "generic")]
        ELSE [http |-> call.http, result |-> EndpointAnswer(call)]

\* POST /api/image/control/style-guide; validate_file_upload raises its
\* HTTPException inside the try block, where `except Exception` replaces it
style_guide_control(a, rem) ==
    LET dep == get_stability_client(a.client_exists, a.api_key_set)
        request_data ==
            [prompt |-> a.prompt, fidelity |-> a.fidelity, output_format |-> a.output_format]
            @@ KeyIf(Truthy(a.style_preset), "style_preset", a.style_preset[1])
            @@ KeyIf(StrOptTruthy(a.negative_prompt), "negative_prompt", a.negative_prompt[1])
            @@ KeyIf(a.seed # None, "seed", a.seed[1])
        validated_request == Construct(StyleGuideRequest(request_data))
        v == validated_request.model
        call == StabilityClient_style_guide(
                    [prompt |-> v["prompt"][1],
                     image |-> Some("bytes"),
                     fidelity |-> v["fidelity"][1],
                     output_format |-> v["output_format"][1],
                     aspect_ratio |-> a.aspect_ratio,
                     style_preset |-> v["style_preset"],
                     negative_prompt |-> v["negative_prompt"],
                     seed |-> v["seed"]], rem)
    IN  IF dep.kind = "raise" THEN [http |-> <<>>, result |-> HttpAnswer(500, dep.message)]
        ELSE IF validate_file_upload(a.image).kind = "raise"
        THEN [http |-> <<>>, result |-> HttpAnswer(500, "generic")]
        ELSE IF ~validated_request.ok
        THEN [http |-> <<>>, result |-> HttpAnswer(400, "validation")]
        ELSE [http |-> call.http, result |-> EndpointAnswer(call)]

\* POST /api/image/control/style-transfer
style_transfer_endpoint(a, rem) ==
    LET dep == get_stability_client(a.client_exists, a.api_key_set)
        request_data ==
            [style_strength |-> a.style_strength,
             composition_fidelity |-> a.composition_fidelity,
             change_strength |-> a.change_strength,
             output_format |-> a.output_format]
            @@ KeyIf(StrOptTruthy(a.prompt), "prompt", a.prompt[1])
            @@ KeyIf(StrOptTruthy(a.negative_prompt), "negative_prompt", a.negative_prompt[1])
            @@ KeyIf(a.seed # None, "seed", a.seed[1])
        validated_request == Construct(StyleTransferRequest(request_data))
        v == validated_request.model
        call == StabilityClient_style_transfer(
                    [init_image |-> Some("bytes"), style_image |-> Some("bytes"),
                     prompt |-> v["prompt"],
                     style_strength |-> v["style_strength"][1],
                     composition_fidelity |-> v["composition_fidelity"][1],
                     change_strength |-> v["change_strength"][1],
                     output_format |-> v["output_format"][1],
                     negative_prompt |-> v["negative_prompt"],
                     seed |-> v["seed"]], rem)
    IN  IF dep.kind = "raise" THEN [http |-> <<>>, result |-> HttpAnswer(500, dep.message)]
        ELSE IF validate_file_upload(a.init_image).kind = "raise"
                \/ validate_file_upload(a.style_image).kind = "raise"
        THEN [http |-> <<>>, result |-> HttpAnswer(500, "generic")]
        ELSE IF ~validated_request.ok
        THEN [http |-> <<>>, result |-> HttpAnswer(400, "validation")]
        ELSE [http |-> call.http, result |-> EndpointAnswer(call)]

---------------------------------------------------------------------------
(* The calls *)

NoRemote == [kind |-> "none"]

Pending == [kind |-> "pending"]

OneChar == <<Run(FALSE, 1)>>

\* the keys a caller supplies for a tag: the fields of its request class, and
\* for style_guide also aspect_ratio, which StyleGuideRequest does not declare
SuppliedFields(tag) ==
    IF tag = "style_guide" THEN ModelFields(tag) \o <<"aspect_ratio">>
    ELSE ModelFields(tag)

InitNormalize ==
    /\ op = "validate_request_for_model"
    /\ \E t \in CalledTags :
         \E X \in RawDicts(SuppliedFields(t), MaxSupplied) :
            arg = [model_type |-> t, request_data |-> X]
    /\ remote = NoRemote

InitValidateImage ==
    /\ op \in {"validate_image_file", "StabilityClient.validate_image_file"}
    /\ arg \in [uploaded_file : {None} \cup {Some(f) : f \in ImageFiles}]
    /\ op = "StabilityClient.validate_image_file" => arg.uploaded_file # None
    /\ remote = NoRemote

InitClientSd35 ==
    /\ op = "StabilityClient.generate_sd35_image"
    /\ arg \in [prompt : {OneChar},
                mode : {"text-to-image", "image-to-image"},
                model : {"sd3.5-large"},
                image : ImageArgs,
                strength : {None, Some(0), Some(800)},
                aspect_ratio : {None, Some("1:1")},
                output_format : {"png"},
                style_preset : {None, Some("anime")},
                negative_prompt : {None},
                seed : {None, Some(0)}]
    /\ remote \in Remotes

InitClientCore ==
    /\ op = "StabilityClient.generate_core_image"
    /\ arg \in [prompt : {OneChar},
                aspect_ratio : {"16:9", ""},
                output_format : {"png", ""},
                style_preset : {None, Some(""), Some("photographic")},
                negative_prompt : {None, Some(EmptyStr), Some(OneChar)},
                seed : {None, Some(0), Some(12345)}]
    /\ remote \in Remotes

InitClientUltra ==
    /\ op = "StabilityClient.generate_ultra_image"
    /\ arg \in [prompt : {OneChar},
                image : ImageArgs,
                strength : {None, Some(500)},
                aspect_ratio : {"1:1"},
                output_format : {"png"},
                style_preset : {None},
                negative_prompt : {None},
                seed : {None}]
    /\ remote \in Remotes

\* sketch_to_image and structure_control read control_strength, style_guide
\* reads fidelity and aspect_ratio
InitClientControl ==
    /\ op \in {"StabilityClient.sketch_to_image", "StabilityClient.structure_control",
               "StabilityClient.style_guide"}
    /\ arg \in [prompt : {OneChar},
                image : ImageArgs,
                control_strength : {700},
                fidelity : {500},
                aspect_ratio : {"1:1"},
                output_format : {"png"},
                style_preset : {None},
                negative_prompt : {None},
                seed : {None, Some(0)}]
    /\ remote \in Remotes

InitClientStyleTransfer ==
    /\ op = "StabilityClient.style_transfer"
    /\ arg \in [init_image : ImageArgs,
                style_image : ImageArgs,
                prompt : {None, Some(EmptyStr), Some(OneChar)},
                style_strength : {1000},
                composition_fidelity : {900},
                change_strength : {900},
                output_format : {"png"},
                negative_prompt : {None},
                seed : {None}]
    /\ remote \in Remotes

\* the keyword arguments given to StabilityAPIClient.generate_sd35_image
Sd35Kwargs == RawDicts(<<"mode", "strength", "aspect_ratio">>, 3)

InitApiClientSd35 ==
    /\ op = "StabilityAPIClient.generate_sd35_image"
    /\ \E kw \in Sd35Kwargs :
         \E im \in {None, Some("file"), Some("bytes"), Some("empty_bytes")} :
            arg = [prompt |-> OneChar, image_file |-> im, kwargs |-> kw]
    /\ remote \in Remotes

\* the keyword arguments given to the other StabilityAPIClient methods
ApiKwargs == RawDicts(<<"output_format", "seed">>, 2)

\* the file arguments: a file object, bytes, b""
ApiFiles == {"file", "bytes", "empty_bytes"}

InitApiClientCall ==
    /\ \E kw \in ApiKwargs, f \in ApiFiles, g \in ApiFiles :
          \/ /\ op \in {"StabilityAPIClient.generate_core_image",
                         "StabilityAPIClient.text_to_audio"}
             /\ arg = [prompt |-> OneChar, kwargs |-> kw]
          \/ /\ op = "StabilityAPIClient.generate_ultra_image"
             /\ arg \in [prompt : {OneChar}, image_file : {None, Some(f)}, kwargs : {kw}]
          \/ /\ op \in {"StabilityAPIClient.sketch_to_image",
                         "StabilityAPIClient.structure_control",
                         "StabilityAPIClient.style_guide",
                         "StabilityAPIClient.audio_to_audio"}
             /\ arg = [prompt |-> OneChar, image_file |-> f, kwargs |-> kw]
          \/ /\ op = "StabilityAPIClient.style_transfer"
             /\ arg = [init_image |-> f, style_image |-> g, kwargs |-> kw]
          \/ /\ op \in {"StabilityAPIClient.fast_3d", "StabilityAPIClient.point_aware_3d"}
             /\ arg = [image_file |-> f, kwargs |-> kw]
          \/ /\ op = "StabilityAPIClient.get_generation_result"
             /\ arg \in [generation_id : {"a1", "b2"}]
    /\ remote \in Remotes

\* the files a user uploads: one that passes, and one breaking each rule
UiImageFiles ==
    { ImageFile("image/png", 1, TRUE, 64, 64),
      ImageFile("image/gif", 1, TRUE, 64, 64),
      ImageFile("image/png", MaxImageBytes + 1, TRUE, 64, 64),
      ImageFile("image/png", 1, FALSE, 0, 0),
      ImageFile("image/png", 1, TRUE, 63, 64),
      ImageFile("image/png", 1, TRUE, 3073, 3072),
      ImageFile("image/png", 1, TRUE, 64, 161) }

UiUploads == {None} \cup {Some(f) : f \in UiImageFiles}

UiAudioUploads ==
    {None} \cup { Some(AudioFile(t, n)) :
                    t \in {"audio/mpeg", "audio/ogg"}, n \in {1, MaxImageBytes + 1} }

UiPrompts == StrsOfRuns(MaxRuns)

UiNegativePrompts == {EmptyStr, OneChar}

InitUiImageGeneration ==
    /\ op = "ui.image_generation"
    /\ arg \in [sub_function : {"Core", "3.5", "Ultra"},
                generation_mode : {"Text-to-Image", "Image-to-Image", "Text+Image-to-Image"},
                prompt : UiPrompts,
                negative_prompt : UiNegativePrompts,
                uploaded_input_image : UiUploads]
    \* create_generation_mode_selector: the modes each model offers
    /\ arg.sub_function = "Core" => arg.generation_mode = "Text-to-Image"
    /\ arg.sub_function = "3.5" => arg.generation_mode # "Text+Image-to-Image"
    /\ arg.sub_function = "Ultra" => arg.generation_mode # "Image-to-Image"
    \* the uploader is shown in the image modes only
    /\ ~IsImageMode(arg.generation_mode) => arg.uploaded_input_image = None
    /\ remote \in Remotes

InitUiControlEdit ==
    /\ op = "ui.control_edit"
    /\ \/ arg \in [sub_function : {"Sketch", "Structure", "Style Guide"},
                   prompt : UiPrompts,
                   negative_prompt : UiNegativePrompts,
                   uploaded_image : UiUploads,
                   init_image : {None},
                   style_image : {None}]
       \/ arg \in [sub_function : {"Style Transfer"},
                   prompt : {EmptyStr},
                   negative_prompt : {EmptyStr},
                   uploaded_image : {None},
                   init_image : UiUploads,
                   style_image : UiUploads]
    /\ remote \in Remotes

InitUiAudio ==
    /\ op = "ui.audio"
    /\ arg \in [sub_function : {"Text-to-Audio", "Audio-to-Audio"},
                prompt : UiPrompts,
                negative_prompt : UiNegativePrompts,
                uploaded_audio : UiAudioUploads]
    /\ arg.sub_function = "Text-to-Audio" =>
          arg.uploaded_audio = None /\ arg.negative_prompt = EmptyStr
    /\ remote \in Remotes

InitUi3d ==
    /\ op = "ui.3d"
    /\ arg \in [sub_function : {"Fast 3D", "Point Aware"}, uploaded_image : UiUploads]
    /\ remote \in Remotes

BackendUploads ==
    { Upload("image/png", 1), Upload("image/gif", 1), Upload("image/png", MaxImageBytes + 1) }

InitBackendCore ==
    /\ op = "backend.generate_core_image"
    /\ \E X \in RawDicts(<<"prompt", "style_preset", "seed", "aspect_ratio">>, 2) :
          arg \in [request : {X}, client_exists : BOOLEAN, api_key_set : BOOLEAN]
    /\ remote \in Remotes

InitBackendStyleTransfer ==
    /\ op = "backend.style_transfer"
    /\ arg \in [style_strength : {1000, 1001},
                composition_fidelity : {900},
                change_strength : {0, 900},
                output_format : {"png", "gif"},
                prompt : {None, Some(EmptyStr), Some(<<Run(TRUE, 1)>>), Some(OneChar)},
                negative_prompt : {None},
                seed : {None},
                init_image : BackendUploads,
                style_image : BackendUploads,
                client_exists : BOOLEAN,
                api_key_set : BOOLEAN]
    /\ remote \in Remotes

InitBackendSd35 ==
    /\ op = "backend.generate_sd35_image"
    /\ arg \in [prompt : {OneChar, <<Run(TRUE, 1)>>},
                mode : {"text-to-image", "image-to-image"},
                model : {"sd3.5-large"},
                aspect_ratio : {Some("1:1")},
                strength : {None, Some(800)},
                output_format : {"png"},
                style_preset : {None},
                negative_prompt : {None},
                seed : {None},
                image : {None} \cup {Some(u) : u \in BackendUploads},
                client_exists : BOOLEAN,
                api_key_set : BOOLEAN]
    /\ remote \in Remotes

InitBackendSketch ==
    /\ op = "backend.sketch_to_image"
    /\ arg \in [prompt : {OneChar, <<Run(TRUE, 1)>>},
                control_strength : {700, 1001},
                output_format : {"png"},
                style_preset : {None},
                negative_prompt : {None},
                seed : {None},
                image : BackendUploads,
                client_exists : BOOLEAN,
                api_key_set : BOOLEAN]
    /\ remote \in Remotes

InitBackendUltra ==
    /\ op = "backend.generate_ultra_image"
    /\ arg \in [prompt : {OneChar, <<Run(TRUE, 1)>>},
                aspect_ratio : {"1:1", "5:1"},
                strength : {None, Some(500), Some(1001)},
                output_format : {"png"},
                style_preset : {None},
                negative_prompt : {None},
                seed : {None},
                image : {None} \cup {Some(u) : u \in BackendUploads},
                client_exists : BOOLEAN,
                api_key_set : BOOLEAN]
    /\ remote \in Remotes

InitBackendStyleGuide ==
    /\ op = "backend.style_guide_control"
    /\ arg \in [prompt : {OneChar, <<Run(TRUE, 1)>>},
                fidelity : {500, 1001},
                aspect_ratio : {"1:1", "16:9", "5:1"},
                output_format : {"png", "gif"},
                style_preset : {None, Some("anime")},
                negative_prompt : {None},
                seed : {None, Some(0)},
                image : BackendUploads,
                client_exists : BOOLEAN,
                api_key_set : BOOLEAN]
    /\ remote \in Remotes

\* the outcome of a call becomes the state
Finish(outcome) ==
    /\ http' = outcome.http
    /\ res' = outcome.result
    /\ pc' = IF outcome.result = Blocked THEN "blocked" ELSE "done"
    /\ UNCHANGED <<op, arg, remote, session>>

\* validate_request_for_model(model_type, request_data)
Normalize ==
    /\ pc = "ready"
    /\ op = "validate_request_for_model"
    /\ Finish([http |-> <<>>,
               result |-> validate_request_for_model(arg.model_type, arg.request_data)])

\* utils/file_handler.py validate_image_file(uploaded_file)
ValidateImageFile ==
    /\ pc = "ready"
    /\ op = "validate_image_file"
    /\ Finish([http |-> <<>>, result |-> validate_image_file(arg.uploaded_file)])

\* StabilityClient.validate_image_file(image_file)
ClientValidateImageFile ==
    /\ pc = "ready"
    /\ op = "StabilityClient.validate_image_file"
    /\ Finish([http |-> <<>>,
               result |-> StabilityClient_validate_image_file(arg.uploaded_file[1])])

\* StabilityClient.generate_sd35_image(...)
ClientGenerateSd35 ==
    /\ pc = "ready"
    /\ op = "StabilityClient.generate_sd35_image"
    /\ Finish(StabilityClient_generate_sd35_image(arg, remote))

\* StabilityClient.generate_core_image(...)
ClientGenerateCore ==
    /\ pc = "ready"
    /\ op = "StabilityClient.generate_core_image"
    /\ Finish(StabilityClient_generate_core_image(arg, remote))

\* StabilityClient.generate_ultra_image(...)
ClientGenerateUltra ==
    /\ pc = "ready"
    /\ op = "StabilityClient.generate_ultra_image"
    /\ Finish(StabilityClient_generate_ultra_image(arg, remote))

\* StabilityClient.sketch_to_image(...)
ClientSketchToImage ==
    /\ pc = "ready"
    /\ op = "StabilityClient.sketch_to_image"
    /\ Finish(StabilityClient_sketch_to_image(arg, remote))

\* StabilityClient.structure_control(...)
ClientStructureControl ==
    /\ pc = "ready"
    /\ op = "StabilityClient.structure_control"
    /\ Finish(StabilityClient_structure_control(arg, remote))

\* StabilityClient.style_guide(...)
ClientStyleGuide ==
    /\ pc = "ready"
    /\ op = "StabilityClient.style_guide"
    /\ Finish(StabilityClient_style_guide(arg, remote))

\* StabilityClient.style_transfer(...)
ClientStyleTransfer ==
    /\ pc = "ready"
    /\ op = "StabilityClient.style_transfer"
    /\ Finish(StabilityClient_style_transfer(arg, remote))

\* StabilityAPIClient.generate_sd35_image(prompt, image_file, **kwargs)
ApiClientGenerateSd35 ==
    /\ pc = "ready"
    /\ op = "StabilityAPIClient.generate_sd35_image"
    /\ Finish(StabilityAPIClient_generate_sd35_image(StabilityAPIClient_init, arg.prompt, arg.image_file,
                                                     arg.kwargs, remote))

ApiClientGenerateCore ==
    /\ pc = "ready"
    /\ op = "StabilityAPIClient.generate_core_image"
    /\ Finish(StabilityAPIClient_generate_core_image(StabilityAPIClient_init, arg.prompt, arg.kwargs, remote))

ApiClientGenerateUltra ==
    /\ pc = "ready"
    /\ op = "StabilityAPIClient.generate_ultra_image"
    /\ Finish(StabilityAPIClient_generate_ultra_image(StabilityAPIClient_init, arg.prompt, arg.image_file,
                                                      arg.kwargs, remote))

ApiClientSketchToImage ==
    /\ pc = "ready"
    /\ op = "StabilityAPIClient.sketch_to_image"
    /\ Finish(StabilityAPIClient_sketch_to_image(StabilityAPIClient_init, arg.prompt, arg.image_file,
                                                 arg.kwargs, remote))

ApiClientStructureControl ==
    /\ pc = "ready"
    /\ op = "StabilityAPIClient.structure_control"
    /\ Finish(StabilityAPIClient_structure_control(StabilityAPIClient_init, arg.prompt, arg.image_file,
                                                   arg.kwargs, remote))

ApiClientStyleGuide ==
    /\ pc = "ready"
    /\ op = "StabilityAPIClient.style_guide"
    /\ Finish(StabilityAPIClient_style_guide(StabilityAPIClient_init, arg.prompt, arg.image_file, arg.kwargs, remote))

ApiClientStyleTransfer ==
    /\ pc = "ready"
    /\ op = "StabilityAPIClient.style_transfer"
    /\ Finish(StabilityAPIClient_style_transfer(StabilityAPIClient_init, arg.init_image, arg.style_image,
                                                arg.kwargs, remote))

ApiClientTextToAudio ==
    /\ pc = "ready"
    /\ op = "StabilityAPIClient.text_to_audio"
    /\ Finish(StabilityAPIClient_text_to_audio(StabilityAPIClient_init, arg.prompt, arg.kwargs, remote))

ApiClientAudioToAudio ==
    /\ pc = "ready"
    /\ op = "StabilityAPIClient.audio_to_audio"
    /\ Finish(StabilityAPIClient_audio_to_audio(StabilityAPIClient_init, arg.prompt, arg.image_file,
                                                arg.kwargs, remote))

ApiClientFast3d ==
    /\ pc = "ready"
    /\ op = "StabilityAPIClient.fast_3d"
    /\ Finish(StabilityAPIClient_fast_3d(StabilityAPIClient_init, arg.image_file, arg.kwargs, remote))

ApiClientPointAware3d ==
    /\ pc = "ready"
    /\ op = "StabilityAPIClient.point_aware_3d"
    /\ Finish(StabilityAPIClient_point_aware_3d(StabilityAPIClient_init, arg.image_file, arg.kwargs, remote))

ApiClientGetGenerationResult ==
    /\ pc = "ready"
    /\ op = "StabilityAPIClient.get_generation_result"
    /\ Finish(StabilityAPIClient_get_generation_result(StabilityAPIClient_init, arg.generation_id, remote))

\* the image generation button
UiImageGeneration ==
    /\ pc = "ready"
    /\ op = "ui.image_generation"
    /\ Finish(ImageGenerationRun(arg, remote))

\* the control/edit button
UiControlEdit ==
    /\ pc = "ready"
    /\ op = "ui.control_edit"
    /\ Finish(ControlEditRun(arg, remote))

\* the audio button
UiAudio ==
    /\ pc = "ready"
    /\ op = "ui.audio"
    /\ Finish(AudioRun(arg, remote))

\* the 3D button
Ui3d ==
    /\ pc = "ready"
    /\ op = "ui.3d"
    /\ Finish(ThreeDRun(arg, remote))

\* POST /api/image/generate/core
BackendGenerateCore ==
    /\ pc = "ready"
    /\ op = "backend.generate_core_image"
    /\ Finish(generate_core_image_endpoint(arg, remote))

\* POST /api/image/control/style-transfer
BackendGenerateSd35 ==
    /\ pc = "ready"
    /\ op = "backend.generate_sd35_image"
    /\ Finish(generate_sd35_image_endpoint(arg, remote))

BackendSketchToImage ==
    /\ pc = "ready"
    /\ op = "backend.sketch_to_image"
    /\ Finish(sketch_to_image_endpoint(arg, remote))

BackendGenerateUltra ==
    /\ pc = "ready"
    /\ op = "backend.generate_ultra_image"
    /\ Finish(generate_ultra_image_endpoint(arg, remote))

BackendStyleGuide ==
    /\ pc = "ready"
    /\ op = "backend.style_guide_control"
    /\ Finish(style_guide_control(arg, remote))

BackendStyleTransfer ==
    /\ pc = "ready"
    /\ op = "backend.style_transfer"
    /\ Finish(style_transfer_endpoint(arg, remote))

\* st.session_state without the key generation_history
NoHistory == [present |-> FALSE, items |-> <<>>]

\* nothing of a session exists yet
NoSession ==
    /\ client = StabilityAPIClient_init
    /\ generation_history = NoHistory
    /\ added = <<>>
    /\ stability_client = None
    /\ constructed = 0
    /\ inflight = <<>>

Init ==
    /\ pc = "ready"
    /\ http = <<>>
    /\ res = Pending
    /\ NoSession
    /\ \/ InitNormalize
       \/ InitValidateImage
       \/ InitClientSd35
       \/ InitClientCore
       \/ InitClientUltra
       \/ InitClientControl
       \/ InitClientStyleTransfer
       \/ InitApiClientCall
       \/ InitBackendCore
       \/ InitApiClientSd35
       \/ InitUiImageGeneration
       \/ InitUiControlEdit
       \/ InitUiAudio
       \/ InitUi3d
       \/ InitBackendStyleTransfer
       \/ InitBackendStyleGuide
       \/ InitBackendUltra
       \/ InitBackendSd35
       \/ InitBackendSketch

Next ==
    \/ Normalize
    \/ ValidateImageFile
    \/ ClientValidateImageFile
    \/ ClientGenerateSd35
    \/ ClientGenerateCore
    \/ ClientGenerateUltra
    \/ ClientSketchToImage
    \/ ClientStructureControl
    \/ ClientStyleGuide
    \/ ClientStyleTransfer
    \/ ApiClientGenerateSd35
    \/ ApiClientGenerateCore
    \/ ApiClientGenerateUltra
    \/ ApiClientSketchToImage
    \/ ApiClientStructureControl
    \/ ApiClientStyleGuide
    \/ ApiClientStyleTransfer
    \/ ApiClientTextToAudio
    \/ ApiClientAudioToAudio
    \/ ApiClientFast3d
    \/ ApiClientPointAware3d
    \/ ApiClientGetGenerationResult
    \/ BackendGenerateCore
    \/ UiImageGeneration
    \/ UiControlEdit
    \/ UiAudio
    \/ Ui3d
    \/ BackendStyleTransfer
    \/ BackendStyleGuide
    \/ BackendGenerateUltra
    \/ BackendGenerateSd35
    \/ BackendSketchToImage

Spec == Init /\ [][Next]_vars

---------------------------------------------------------------------------
(* Properties *)

NormalizerDone == pc = "done" /\ op = "validate_request_for_model"

\* the fields of a ValidationError, none when the request was accepted
Rejected == IF res.ok THEN {} ELSE res.fields

\* the button press fails validation: a required prompt or attachment is
\* missing, or an upload is rejected by its validator
UiValidationFails ==
    CASE op = "ui.image_generation" ->
            \/ ~StrTruthy(strip(arg.prompt))
            \/ /\ IsImageMode(arg.generation_mode)
               /\ ~validate_image_file(arg.uploaded_input_image).valid
      [] op = "ui.control_edit" ->
            IF arg.sub_function = "Style Transfer"
            THEN \/ ~validate_image_file(arg.init_image).valid
                 \/ ~validate_image_file(arg.style_image).valid
            ELSE \/ ~StrTruthy(strip(arg.prompt))
                 \/ ~validate_image_file(arg.uploaded_image).valid
      [] op = "ui.audio" ->
            \/ ~StrTruthy(strip(arg.prompt))
            \/ /\ arg.sub_function = "Audio-to-Audio"
               /\ ~validate_audio_file(arg.uploaded_audio).valid
      [] op = "ui.3d" -> ~validate_image_file(arg.uploaded_image).valid
      [] OTHER -> FALSE

\* C1: in every Streamlit flow, a button press that fails validation (prompt
\* or attachment missing, or the upload rejected by validate_image_file /
\* validate_audio_file) issues no HTTP request.
C1_ValidationFailureSendsNothing ==
    (pc = "done" /\ UiValidationFails) => http = <<>>

Sd35Call ==
    op \in {"StabilityClient.generate_sd35_image", "StabilityAPIClient.generate_sd35_image"}

\* the mode and the image a generate_sd35_image call was given
Sd35CallMode ==
    IF op = "StabilityClient.generate_sd35_image" THEN Some(arg.mode)
    ELSE Get(arg.kwargs, "mode")

Sd35CallImage ==
    IF op = "StabilityClient.generate_sd35_image" THEN arg.image ELSE arg.image_file

\* C2: every SD35 request sent with mode=image-to-image carries an `image`
\* part and nothing else, every one sent with mode=text-to-image carries no
\* `image` part, and a call with mode=image-to-image and no usable image
\* (None or a falsy value) fails without sending, for both clients.
C2_Sd35ImagePartFollowsMode ==
    (pc = "done" /\ Sd35Call) =>
        /\ \A i \in 1..Len(http) :
              /\ Get(http[i].data, "mode") = Some("image-to-image")
                    => DOMAIN http[i].files = {"image"}
              /\ Get(http[i].data, "mode") = Some("text-to-image")
                    => "image" \notin DOMAIN http[i].files
        /\ (Sd35CallMode = Some("image-to-image") /\ ~ImageTruthy(Sd35CallImage))
              => http = <<>> /\ res.kind = "raise"

\* C3: an accepted sd35 request normalizes to a dict that holds aspect_ratio
\* iff its mode is text-to-image and strength iff its mode is image-to-image.
C3_Sd35FieldsFollowMode ==
    (NormalizerDone /\ arg.model_type = "sd35" /\ res.ok) =>
        /\ ("aspect_ratio" \in DOMAIN res.out) <=> (res.out["mode"] = "text-to-image")
        /\ ("strength" \in DOMAIN res.out) <=> (res.out["mode"] = "image-to-image")

Blank(s) == \A i \in 1..Len(s) : s[i].ws

\* t is s without its leading and trailing whitespace
IsTrimOf(t, s) ==
    /\ t = <<>> \/ (~t[1].ws /\ ~t[Len(t)].ws)
    /\ \E i \in 0..1, j \in 0..1 :
          /\ Len(s) = Len(t) + i + j
          /\ i = 1 => s[1].ws
          /\ j = 1 => s[Len(s)].ws
          /\ SubSeq(s, 1 + i, Len(s) - j) = t

\* C5: for each of the seven variants, a prompt that is empty or only
\* whitespace fails with a validation error on prompt, and every accepted
\* request holds a non-empty prompt, stored as the given prompt trimmed.
C5_PromptNeverBlank ==
    (NormalizerDone /\ arg.model_type \in VariantTags) =>
        /\ ("prompt" \in DOMAIN arg.request_data /\ Blank(arg.request_data["prompt"]))
              => ~res.ok /\ res.error = "ValidationError" /\ "prompt" \in res.fields
        /\ res.ok =>
              /\ "prompt" \in DOMAIN arg.request_data
              /\ "prompt" \in DOMAIN res.out
              /\ res.out["prompt"] # EmptyStr
              /\ IsTrimOf(res.out["prompt"], arg.request_data["prompt"])

C5_Witness ==
    /\ NormalizerDone
    /\ res.ok
    /\ Len(arg.request_data["prompt"]) = 2
    /\ arg.request_data["prompt"][1].ws
    /\ res.out["prompt"] = Tail(arg.request_data["prompt"])

\* C6: a StyleTransfer request without a prompt, otherwise valid, is accepted
\* by the normalizer, and by the backend endpoint, which dispatches it
\* without a prompt field.
C6_StyleTransferPromptOptional ==
    /\ (/\ NormalizerDone
        /\ arg.model_type = "style_transfer"
        /\ "prompt" \notin DOMAIN arg.request_data
        /\ FieldErrors(StyleTransferRequest(arg.request_data)) \subseteq {"prompt"})
          => res.ok /\ "prompt" \notin DOMAIN res.out
    /\ (/\ pc = "done"
        /\ op = "backend.style_transfer"
        /\ arg.prompt = None
        /\ arg.client_exists \/ arg.api_key_set
        /\ validate_file_upload(arg.init_image).kind = "return"
        /\ validate_file_upload(arg.style_image).kind = "return"
        /\ arg.style_strength <= 1000
        /\ arg.change_strength >= 100
        /\ arg.output_format \in OutputFormat)
          => Len(http) = 1 /\ "prompt" \notin DOMAIN http[1].data

\* C7: a style transfer with init_image or style_image missing sends no HTTP
\* request and fails: StabilityClient.style_transfer raises, and what it
\* raises is ValueError unless init_image is a path that does not open;
\* the Streamlit flow shows its error and calls nothing.
C7_StyleTransferNeedsBothImages ==
    /\ (/\ pc = "done"
        /\ op = "StabilityClient.style_transfer"
        /\ arg.init_image = None \/ arg.style_image = None)
          => /\ http = <<>>
             /\ res.kind = "raise"
             /\ res.exc # "StabilityClientError"
             /\ (arg.init_image = None \/ arg.init_image[1] \notin {"missing_path", "empty_path"})
                   => res.exc = "ValueError"
    /\ (/\ pc = "done"
        /\ op = "ui.control_edit"
        /\ arg.sub_function = "Style Transfer"
        /\ arg.init_image = None \/ arg.style_image = None)
          => http = <<>> /\ res.errors = <<"images_required">> /\ ~res.displayed

C7_Witness ==
    /\ pc = "done"
    /\ op = "StabilityClient.style_transfer"
    /\ arg.init_image = Some("bytes")
    /\ arg.style_image = None
    /\ remote.kind = "response"
    /\ res.kind = "raise"
    /\ res.exc = "ValueError"
    /\ http = <<>>

\* the knobs of the variants: control_strength, fidelity, strength,
\* style_strength, composition_fidelity, change_strength
KnobFields ==
    {"strength", "control_strength", "fidelity", "style_strength",
     "composition_fidelity", "change_strength"}

\* C8: a supplied strength/fidelity field is accepted exactly when it lies in
\* [0.0, 1.0], change_strength exactly when it lies in [0.1, 1.0], both ends
\* included.
C8_KnobRanges ==
    (NormalizerDone /\ arg.model_type \in VariantTags) =>
        \A f \in KnobFields \cap DOMAIN arg.request_data :
            LET v == arg.request_data[f]
            IN  (f \notin Rejected)
                   <=> (v <= 1000 /\ v >= (IF f = "change_strength" THEN 100 ELSE 0))

C8_Witness ==
    /\ NormalizerDone
    /\ arg.model_type = "style_transfer"
    /\ "change_strength" \in DOMAIN arg.request_data
    /\ arg.request_data["change_strength"] = 100
    /\ "style_strength" \in DOMAIN arg.request_data
    /\ arg.request_data["style_strength"] = 1000
    /\ res.ok
    /\ res.out["change_strength"] = 100

\* the five limits on an image, all inclusive
WithinLimits(f) ==
    /\ f.size <= 52428800
    /\ f.width >= 64
    /\ f.height >= 64
    /\ f.width * f.height <= 9437184
    /\ 2 * Max(f.width, f.height) <= 5 * Min(f.width, f.height)

\* C9: each image validator accepts a decodable image (of an allowed MIME
\* type, where the validator looks at it) iff size <= 52,428,800, width >= 64,
\* height >= 64, width*height <= 9,437,184 and the ratio of the longer to the
\* shorter side is at most 2.5; hence the two decide alike.
C9_ImageLimits ==
    /\ (/\ pc = "done"
        /\ op = "validate_image_file"
        /\ arg.uploaded_file # None
        /\ arg.uploaded_file[1].decodable
        /\ arg.uploaded_file[1].type \in {"image/jpeg", "image/png", "image/webp"})
          => (res.valid <=> WithinLimits(arg.uploaded_file[1]))
    /\ (/\ pc = "done"
        /\ op = "StabilityClient.validate_image_file"
        /\ arg.uploaded_file[1].decodable)
          => (res.valid <=> WithinLimits(arg.uploaded_file[1]))

C9_Witness ==
    /\ pc = "done"
    /\ op = "validate_image_file"
    /\ arg.uploaded_file = Some(ImageFile("image/png", 52428800, TRUE, 160, 64))
    /\ res.valid

\* the rules in the order claimed, named as the validators' messages are
RuleOrder == <<"type", "size", "unreadable", "min_dimension", "max_pixels", "aspect_ratio">>

\* whether file f breaks a rule; the geometric rules are about the decoded image
Violates(f, rule) ==
    CASE rule = "type"          -> f.type \notin {"image/jpeg", "image/png", "image/webp"}
      [] rule = "size"          -> f.size > 52428800
      [] rule = "unreadable"    -> ~f.decodable
      [] rule = "min_dimension" -> f.decodable /\ (f.width < 64 \/ f.height < 64)
      [] rule = "max_pixels"    -> f.decodable /\ f.width * f.height > 9437184
      [] rule = "aspect_ratio"  ->
            f.decodable /\ 2 * Max(f.width, f.height) > 5 * Min(f.width, f.height)

\* the first of the rules that f breaks, "valid" when it breaks none
FirstViolated(rules, f) ==
    LET bad == {i \in 1..Len(rules) : Violates(f, rules[i])}
    IN  IF bad = {} THEN "valid" ELSE rules[CHOOSE i \in bad : \A j \in bad : i <= j]

\* C10: the message of validate_image_file is that of the first rule broken
\* in the order unset, MIME type, byte size, decodability, minimum dimension,
\* maximum pixel count, aspect ratio; StabilityClient.validate_image_file,
\* which has no unset and no MIME rule, follows the same order from byte size on.
C10_FirstViolatedRuleReported ==
    /\ (pc = "done" /\ op = "validate_image_file") =>
          /\ res.message = IF arg.uploaded_file = None THEN "unset"
                           ELSE FirstViolated(RuleOrder, arg.uploaded_file[1])
          /\ res.valid <=> res.message = "valid"
    /\ (pc = "done" /\ op = "StabilityClient.validate_image_file") =>
          (IF res.valid THEN "valid" ELSE res.error)
              = FirstViolated(Tail(RuleOrder), arg.uploaded_file[1])

C10_Witness ==
    /\ pc = "done"
    /\ op = "validate_image_file"
    /\ arg.uploaded_file = Some(ImageFile("image/png", 1, TRUE, 63, 150000))
    /\ res.message = "min_dimension"

EnumTextFields == {"output_format", "style_preset", "aspect_ratio", "mode", "model"}

FreeTextFields == {"prompt", "negative_prompt"}

\* C12: no field of a normalized request holds None or the empty string.
C12_NoEmptyFieldInNormalized ==
    (NormalizerDone /\ res.ok) =>
        /\ \A f \in DOMAIN res.out \cap EnumTextFields : res.out[f] # ""
        /\ \A f \in DOMAIN res.out \cap FreeTextFields : res.out[f] # EmptyStr

---------------------------------------------------------------------------
(* The requests the clients send *)

\* a call of StabilityClient.generate_core_image that has returned or raised
CoreCall == pc = "done" /\ op = "StabilityClient.generate_core_image"

\* the form fields generate_core_image is to send for its arguments
CoreExpectedFields ==
    {"prompt"}
    \cup {f \in {"aspect_ratio", "output_format"} : arg[f] # ""}
    \cup (IF arg.style_preset # None /\ arg.style_preset # Some("")
          THEN {"style_preset"} ELSE {})
    \cup (IF arg.negative_prompt # None /\ arg.negative_prompt # Some(EmptyStr)
          THEN {"negative_prompt"} ELSE {})
    \cup (IF arg.seed # None THEN {"seed"} ELSE {})

\* the value of argument f as the form is to carry it
CoreArgValue(f) ==
    IF f \in {"prompt", "aspect_ratio", "output_format"} THEN arg[f] ELSE arg[f][1]

\* C13: generate_core_image posts to generate/core one form holding prompt,
\* the non-empty ones of aspect_ratio, output_format, style_preset and
\* negative_prompt, and seed unless it is None, each with the argument's value,
\* with the single empty file part "none"; the call with aspect_ratio 16:9,
\* style_preset photographic, seed 12345 and output_format png sends five
\* fields; on a 200 response the method returns the response body as it is.
C13_CoreFormPayload ==
    CoreCall =>
        /\ Len(http) = 1
        /\ http[1].method = "POST"
        /\ http[1].endpoint = "/v2beta/stable-image/generate/core"
        /\ http[1].files = ("none" :> "")
        /\ DOMAIN http[1].data = CoreExpectedFields
        /\ \A f \in CoreExpectedFields : http[1].data[f] = CoreArgValue(f)
        /\ ( /\ arg.aspect_ratio = "16:9" /\ arg.output_format = "png"
             /\ arg.style_preset = Some("photographic") /\ arg.seed = Some(12345)
             /\ arg.negative_prompt = None )
           => Cardinality(DOMAIN http[1].data) = 5
        /\ (remote.kind = "response" /\ remote.status = 200)
           => res = Return(remote.body)

C13_Witness ==
    /\ CoreCall
    /\ arg.aspect_ratio = "16:9" /\ arg.output_format = "png"
    /\ arg.style_preset = Some("photographic") /\ arg.seed = Some(12345)
    /\ arg.negative_prompt = None
    /\ remote = Response(200, "payload")
    /\ Cardinality(DOMAIN http[1].data) = 5
    /\ http[1].files = ("none" :> "")
    /\ res = Return("payload")

\* a generation method of StabilityClient that has returned or raised
ClientGenerationOps ==
    {"StabilityClient.generate_core_image", "StabilityClient.generate_sd35_image",
     "StabilityClient.generate_ultra_image", "StabilityClient.sketch_to_image",
     "StabilityClient.structure_control", "StabilityClient.style_guide",
     "StabilityClient.style_transfer"}

\* the remote answered the request with 202 and an empty body
Answered202 ==
    pc = "done" /\ Len(http) = 1 /\ remote.kind = "response" /\ remote.status = 202

\* C14: when the remote answers 202, a StabilityClient generation method does
\* not return the (empty) body the way it returns a generated payload, and the
\* backend's core endpoint does not answer with a success response.
C14_AcceptedIsNotSuccess ==
    Answered202 =>
        /\ op \in ClientGenerationOps => res.kind # "return"
        /\ op = "backend.generate_core_image" =>
               ~(res.status = 200 /\ res.detail.success)

\* a response whose status is neither 200 nor 202, and a StabilityClient
\* method that has sent its request and got one
FailureResponse(r) == r.kind = "response" /\ r.status \notin {200, 202}

RemoteFailed == pc = "done" /\ op \in ClientGenerationOps /\ Len(http) = 1 /\ FailureResponse(remote)

\* the bodies that are JSON objects with a message field
JsonWithMessage == {"json_message", "json_message_network_text"}

\* C15: for a response whose status is neither 200 nor 202 the method raises
\* StabilityClientError carrying the response's status; the message is the
\* JSON body's message field when the body has one, and the raw response text
\* otherwise.
C15_FailureStatusAndMessage ==
    RemoteFailed =>
        /\ res.kind = "raise" /\ res.exc = "StabilityClientError"
        /\ res.status_code = Some(remote.status)
        /\ remote.body = "json_message" => res.message = "json.message"
        /\ remote.body \notin JsonWithMessage => res.message = "response.text"

\* the request was sent and no response came back
TransportFailed == pc = "done" /\ Len(http) = 1 /\ remote.kind = "transport_error"

ApiClientOps ==
    {"StabilityAPIClient.generate_core_image", "StabilityAPIClient.generate_sd35_image",
     "StabilityAPIClient.generate_ultra_image", "StabilityAPIClient.sketch_to_image",
     "StabilityAPIClient.structure_control", "StabilityAPIClient.style_guide",
     "StabilityAPIClient.style_transfer", "StabilityAPIClient.text_to_audio",
     "StabilityAPIClient.audio_to_audio", "StabilityAPIClient.fast_3d",
     "StabilityAPIClient.point_aware_3d", "StabilityAPIClient.get_generation_result"}

\* C16: a transport failure never carries a status code and a failure the
\* remote reported always carries one; StabilityAPIClient raises for the first
\* and returns the response for the second; and the backend's answer to a
\* transport failure differs from its answer to the same request for every
\* failure response of the remote.
C16_TransportDistinctFromRemote ==
    /\ (TransportFailed /\ op \in ClientGenerationOps) =>
           res.kind = "raise" /\ res.status_code = None
    /\ RemoteFailed => res.kind = "raise" /\ res.status_code # None
    /\ (TransportFailed /\ op \in ApiClientOps) => res.kind = "raise"
    /\ (pc = "done" /\ op \in ApiClientOps /\ FailureResponse(remote)) =>
           res = Return(remote)
    /\ (TransportFailed /\ op = "backend.generate_core_image") =>
           \A r \in Remotes :
              FailureResponse(r) => generate_core_image_endpoint(arg, r).result # res

\* a public method of one of the two clients has ended, or waits for ever
ClientCallEnded == pc # "ready" /\ op \in ClientGenerationOps \cup ApiClientOps

\* the image arguments _prepare_image_file cannot turn into a file
UnusableImages == {None, Some("missing_path"), Some("empty_path"), Some("other")}

\* the arguments fail the checks the called method makes itself before it
\* sends anything; the StabilityAPIClient methods make none
OwnChecksFail ==
    CASE op = "StabilityClient.generate_sd35_image" ->
            /\ arg.mode = "image-to-image"
            /\ \/ arg.image = None
               \/ arg.strength = None
               \/ arg.image \in {Some("missing_path"), Some("other")}
      [] op = "StabilityClient.generate_ultra_image" ->
            arg.image \in {Some("missing_path"), Some("other")}
      [] op \in {"StabilityClient.sketch_to_image", "StabilityClient.structure_control",
                 "StabilityClient.style_guide"} ->
            arg.image \in UnusableImages
      [] op = "StabilityClient.style_transfer" ->
            arg.init_image \in UnusableImages \/ arg.style_image \in UnusableImages
      [] OTHER -> FALSE

\* C17: a client method sends exactly one request when its arguments pass its
\* own checks and none when they do not, whatever the remote answers and
\* also when the transport fails: no request is sent a second time.
C17_OneRequestPerCall ==
    ClientCallEnded =>
        /\ Len(http) <= 1
        /\ Len(http) = (IF OwnChecksFail THEN 0 ELSE 1)

C17_Witness ==
    /\ ClientCallEnded
    /\ op = "StabilityClient.generate_ultra_image"
    /\ ~OwnChecksFail
    /\ remote = TransportError
    /\ res.kind = "raise"
    /\ Len(http) = 1

\* a request was sent and the remote never answers it
RemoteSilent == pc # "ready" /\ Len(http) >= 1 /\ remote = Silent

\* C18: every request is sent with a timeout, and a call whose remote never
\* answers ends (with a transport error for the client methods) instead of
\* waiting for ever; for the requests of both clients.
C18_EveryCallTimeBounded ==
    /\ \A i \in 1..Len(http) : http[i].timeout # None
    /\ RemoteSilent =>
          /\ pc = "done"
          /\ op \in ClientGenerationOps \cup ApiClientOps =>
                 res.kind = "raise" /\ res.status_code = None

\* the file parts of a request other than the placeholder
Attachments(req) == DOMAIN req.files \ {"none"}

\* the sets of field names attachments are sent under
AttachmentNames == {{"image"}, {"init_image", "style_image"}, {"audio"}}

\* C19: every POST carries the single empty file part "none" exactly when it
\* carries no attachment, and its attachments go under the fixed field names
\* image, init_image with style_image, or audio.
C19_PlaceholderIffNoAttachment ==
    \A i \in 1..Len(http) :
        http[i].method = "POST" =>
            /\ ("none" \in DOMAIN http[i].files) <=> (Attachments(http[i]) = {})
            /\ "none" \in DOMAIN http[i].files => http[i].files["none"] = ""
            /\ Attachments(http[i]) # {} => Attachments(http[i]) \in AttachmentNames

C19_Witness ==
    /\ pc = "done"
    /\ op = "StabilityAPIClient.generate_ultra_image"
    /\ arg.image_file = Some("empty_bytes")
    /\ Len(http) = 1
    /\ http[1].method = "POST"
    /\ http[1].files = ("none" :> "")

\* the method that serves each variant, under the same name in both clients
VariantMethod ==
    [core |-> "generate_core_image", sd35 |-> "generate_sd35_image",
     ultra |-> "generate_ultra_image", sketch |-> "sketch_to_image",
     structure |-> "structure_control", style_guide |-> "style_guide",
     style_transfer |-> "style_transfer"]

\* the path each variant is to be posted to
VariantPath ==
    [core |-> "generate/core", sd35 |-> "generate/sd3", ultra |-> "generate/ultra",
     sketch |-> "control/sketch", structure |-> "control/structure",
     style_guide |-> "control/style", style_transfer |-> "control/style-transfer"]

\* the names the file parts of each variant may have
VariantFileNames ==
    [core |-> {{"none"}}, sd35 |-> {{"none"}, {"image"}}, ultra |-> {{"none"}, {"image"}},
     sketch |-> {{"image"}}, structure |-> {{"image"}}, style_guide |-> {{"image"}},
     style_transfer |-> {{"init_image", "style_image"}}]

\* C20: whatever its arguments, a call for a variant posts to the variant's one
\* path under /v2beta/stable-image, and StabilityClient and StabilityAPIClient
\* post a variant to the same path with file parts of the same names.
C20_FixedEndpointPerVariant ==
    \A v \in DOMAIN VariantPath :
        (pc # "ready" /\ op \in {"StabilityClient." \o VariantMethod[v],
                                 "StabilityAPIClient." \o VariantMethod[v]}) =>
            \A i \in 1..Len(http) :
                /\ http[i].method = "POST"
                /\ http[i].endpoint = "/v2beta/stable-image/" \o VariantPath[v]
                /\ DOMAIN http[i].files \in VariantFileNames[v]

C20_Witness ==
    /\ pc = "done"
    /\ op = "StabilityClient.style_guide"
    /\ arg.seed = Some(0)
    /\ Len(http) = 1
    /\ http[1].endpoint = "/v2beta/stable-image/control/style"
    /\ http[1].endpoint =
          StabilityAPIClient_style_guide(StabilityAPIClient_init, arg.prompt, "file", EmptyDict, remote).http[1].endpoint
    /\ DOMAIN http[1].files =
          DOMAIN StabilityAPIClient_style_guide(StabilityAPIClient_init, arg.prompt, "file", EmptyDict, remote).http[1].files

---------------------------------------------------------------------------
(* The errors of the normalizer *)

\* the classes each exception the normalizer raises is an instance of:
\* pydantic's ValidationError derives from ValueError
ExceptionClasses ==
    [ValidationError |-> {"ValidationError", "ValueError", "Exception"},
     ValueError      |-> {"ValueError", "Exception"}]

\* an except clause for class handler receives an exception of class raised
Receives(handler, raised) == handler \in ExceptionClasses[raised]

\* the except clause written for each kind of error
ErrorKinds == {"ValueError", "ValidationError"}

\* C21: an unknown tag fails with the unsupported-model-type error and never
\* with a field validation error, a known tag never fails with the
\* unsupported-model-type error, and the handler written for one of the two
\* kinds receives no error of the other kind.
C21_UnsupportedTypeIsDistinctKind ==
    NormalizerDone =>
        /\ arg.model_type \notin VariantTags => ~res.ok /\ res.error = "ValueError"
        /\ (arg.model_type \in VariantTags /\ ~res.ok) => res.error = "ValidationError"
        /\ ~res.ok => \A h \in ErrorKinds : Receives(h, res.error) => h = res.error

---------------------------------------------------------------------------
(* Defaults *)

\* the defaults documented for each variant, floats in thousandths
DocumentedDefaults ==
    [core           |-> [aspect_ratio |-> "1:1", output_format |-> "png"],
     sd35           |-> [aspect_ratio |-> "1:1"],
     ultra          |-> [aspect_ratio |-> "1:1"],
     sketch         |-> [control_strength |-> 700],
     structure      |-> [control_strength |-> 700],
     style_transfer |-> [style_strength |-> 1000, composition_fidelity |-> 900,
                         change_strength |-> 900]]

\* the normalizer accepted a request for variant t
Accepted(t) == NormalizerDone /\ arg.model_type = t /\ res.ok

StyleGuideDispatched ==
    pc = "done" /\ op = "backend.style_guide_control" /\ Len(http) = 1

\* C23: a style_guide request with only a prompt is normalized to fidelity
\* 0.5, aspect_ratio 1:1 and no control_strength; a supplied aspect_ratio is
\* rejected unless it is an allowed ratio and is kept in the normalized
\* request; the backend's style-guide endpoint dispatches allowed ratios only.
C23_StyleGuideDefaultsAndRatio ==
    /\ (Accepted("style_guide") /\ DOMAIN arg.request_data = {"prompt"}) =>
          /\ Get(res.out, "fidelity") = Some(500)
          /\ Get(res.out, "aspect_ratio") = Some("1:1")
          /\ "control_strength" \notin DOMAIN res.out
    /\ ( /\ NormalizerDone /\ arg.model_type = "style_guide"
         /\ "aspect_ratio" \in DOMAIN arg.request_data ) =>
          IF arg.request_data["aspect_ratio"] \in AspectRatio
          THEN res.ok => Get(res.out, "aspect_ratio") = Some(arg.request_data["aspect_ratio"])
          ELSE ~res.ok
    /\ StyleGuideDispatched => http[1].data["aspect_ratio"] \in AspectRatio

\* C24: every request sent to generate/ultra carries an image file part
\* exactly when it carries a strength field.
C24_UltraImageAndStrengthTogether ==
    \A i \in 1..Len(http) :
        http[i].endpoint = "/v2beta/stable-image/generate/ultra" =>
            (("image" \in DOMAIN http[i].files) <=> ("strength" \in DOMAIN http[i].data))

---------------------------------------------------------------------------
(* One StabilityAPIClient used for several calls *)

\* what the remote answers the calls of a session
SessionRemotes == {Response(200, "payload"), Response(500, "text"), TransportError}

InitSession ==
    /\ pc = "session"
    /\ op = "StabilityAPIClient"
    /\ arg = EmptyDict
    /\ remote = NoRemote
    /\ http = <<>>
    /\ res = Pending
    /\ NoSession

\* a method called on the client: its request joins the ones sent so far and
\* the object is left as the method leaves it
SessionCall(name, out, rem) ==
    /\ op' = name
    /\ remote' = rem
    /\ http' = http \o out.http
    /\ res' = out.result
    /\ client' = out.self
    /\ UNCHANGED <<arg, pc, generation_history, added, stability_client, constructed,
                   inflight>>

SessionGenerateCore ==
    /\ pc = "session" /\ Len(http) < MaxCalls
    /\ \E rem \in SessionRemotes :
          SessionCall("generate_core_image",
              StabilityAPIClient_generate_core_image(client, OneChar, EmptyDict, rem), rem)

SessionSketchToImage ==
    /\ pc = "session" /\ Len(http) < MaxCalls
    /\ \E rem \in SessionRemotes :
          SessionCall("sketch_to_image",
              StabilityAPIClient_sketch_to_image(client, OneChar, "file", EmptyDict, rem), rem)

SessionTextToAudio ==
    /\ pc = "session" /\ Len(http) < MaxCalls
    /\ \E rem \in SessionRemotes :
          SessionCall("text_to_audio",
              StabilityAPIClient_text_to_audio(client, OneChar, EmptyDict, rem), rem)

SessionAudioToAudio ==
    /\ pc = "session" /\ Len(http) < MaxCalls
    /\ \E rem \in SessionRemotes :
          SessionCall("audio_to_audio",
              StabilityAPIClient_audio_to_audio(client, OneChar, "file", EmptyDict, rem), rem)

NextSession ==
    \/ SessionGenerateCore
    \/ SessionSketchToImage
    \/ SessionTextToAudio
    \/ SessionAudioToAudio

SessionSpec == InitSession /\ [][NextSession]_vars

AudioEndpoints ==
    {"/v2beta/audio/stable-audio-2/text-to-audio",
     "/v2beta/audio/stable-audio-2/audio-to-audio"}

---------------------------------------------------------------------------
(* Order of the normalizer's steps *)

\* the normalizer has answered a request for a known variant that has a prompt
PromptJudged ==
    /\ NormalizerDone /\ arg.model_type \in VariantTags
    /\ "prompt" \in DOMAIN arg.request_data

\* C26: the prompt is trimmed before it is checked, so it is accepted exactly
\* when its trimmed form is non-empty and at most 10,000 characters long, and
\* prompt and negative_prompt of a normalized request are in trimmed form.
C26_TrimmedBeforeChecked ==
    /\ PromptJudged =>
          (("prompt" \notin Rejected) <=>
              LET t == strip(arg.request_data["prompt"])
              IN  t # EmptyStr /\ StrLen(t) <= PromptMaxLength)
    /\ (PromptJudged /\ res.ok) =>
          \A f \in {"prompt", "negative_prompt"} \cap DOMAIN res.out :
              res.out[f] = strip(res.out[f])

---------------------------------------------------------------------------
(* The backend's answers to requests it rejects itself *)

\* a backend endpoint has answered a request for which a client was available
BackendAnswered ==
    /\ pc = "done"
    /\ op \in {"backend.generate_core_image", "backend.generate_sd35_image",
               "backend.generate_ultra_image", "backend.sketch_to_image",
               "backend.style_guide_control", "backend.style_transfer"}
    /\ (arg.client_exists \/ arg.api_key_set)

\* the uploads the endpoint passes to validate_file_upload
CheckedUploads ==
    CASE op = "backend.style_transfer" -> {arg.init_image, arg.style_image}
      [] op \in {"backend.sketch_to_image", "backend.style_guide_control"} -> {arg.image}
      [] op = "backend.generate_ultra_image" ->
            IF arg.image # None THEN {arg.image[1]} ELSE {}
      [] op = "backend.generate_sd35_image" ->
            IF arg.image # None /\ arg.mode = "image-to-image" THEN {arg.image[1]} ELSE {}
      [] OTHER -> {}

\* an upload of the wrong type or over the size limit
BadUpload(u) == u.content_type \notin AllowedImageTypes \/ u.size > MaxImageBytes

\* the request has no prompt where one is required, or a blank one
BlankPrompt ==
    CASE op = "backend.generate_core_image" ->
            \/ "prompt" \notin DOMAIN arg.request
            \/ Blank(arg.request["prompt"])
      [] op = "backend.style_transfer" -> FALSE
      [] OTHER -> Blank(arg.prompt)

\* the request is one local validation rejects: the schema rejects its
\* prompt, an upload fails validate_file_upload, or SD35 image-to-image comes
\* without an image
LocallyRejected ==
    \/ BlankPrompt
    \/ \E u \in CheckedUploads : BadUpload(u)
    \/ /\ op = "backend.generate_sd35_image"
       /\ arg.mode = "image-to-image" /\ arg.image = None

\* C28: a request local validation rejects is answered with a 4xx status, never
\* with 500, and nothing is sent to the remote for it.
C28_LocalRejectionIsClientError ==
    (BackendAnswered /\ LocallyRejected) =>
        /\ res.status >= 400 /\ res.status <= 499
        /\ http = <<>>

---------------------------------------------------------------------------
(* The backend serving several requests at once *)

\* the JSON bodies and the remote's answers of the requests in flight
ServedBodies == {[prompt |-> OneChar], [prompt |-> OneChar, seed |-> 0], EmptyDict}

ServedRemotes == {Response(200, "payload"), Response(500, "text"), TransportError}

\* a request to POST /api/image/generate/core that has arrived
Arrived(body, rem) ==
    [pc |-> "dep", request |-> body, remote |-> rem, answer |-> Pending, sent |-> <<>>]

\* the process is up, the global is unset, the requests have arrived;
\* arg.api_key_set tells whether STABILITY_API_KEY is in the environment
InitBackend ==
    /\ pc = "serving"
    /\ op = "backend"
    /\ arg \in [api_key_set : BOOLEAN]
    /\ remote = NoRemote
    /\ http = <<>>
    /\ res = Pending
    /\ client = StabilityAPIClient_init
    /\ generation_history = NoHistory
    /\ added = <<>>
    /\ stability_client = None
    /\ constructed = 0
    /\ inflight \in [1..MaxRequests -> {Arrived(b, r) : b \in ServedBodies, r \in ServedRemotes}]

\* a faulty dependency: every request gets a StabilityClient of its own
BackendDependency_always_new(r) ==
    /\ pc = "serving" /\ inflight[r].pc = "dep"
    /\ LET dep == get_stability_client(FALSE, arg.api_key_set)
       IN  IF dep.kind = "raise"
           THEN /\ inflight' = [inflight EXCEPT ![r].pc = "done",
                                                ![r].answer = HttpAnswer(500, dep.message)]
                /\ UNCHANGED <<stability_client, constructed>>
           ELSE /\ inflight' = [inflight EXCEPT ![r].pc = "handler"]
                /\ stability_client' = Some(constructed + 1)
                /\ constructed' = constructed + 1
    /\ UNCHANGED <<op, arg, remote, pc, http, res, client, generation_history, added>>

\* Depends(get_stability_client) of request r: the coroutine has no await, so
\* it runs from its test of the global to its return in one step
BackendDependency(r) ==
    /\ pc = "serving" /\ inflight[r].pc = "dep"
    /\ LET dep == get_stability_client(stability_client # None, arg.api_key_set)
       IN  IF dep.kind = "raise"
           THEN /\ inflight' = [inflight EXCEPT ![r].pc = "done",
                                                ![r].answer = HttpAnswer(500, dep.message)]
                /\ UNCHANGED <<stability_client, constructed>>
           ELSE /\ inflight' = [inflight EXCEPT ![r].pc = "handler"]
                /\ IF stability_client = None
                   THEN /\ stability_client' = Some(constructed + 1)
                        /\ constructed' = constructed + 1
                   ELSE UNCHANGED <<stability_client, constructed>>
    /\ UNCHANGED <<op, arg, remote, pc, http, res, client, generation_history, added>>

\* the body of generate_core_image for request r, with the client the
\* dependency gave it; it has no await either
BackendHandler(r) ==
    /\ pc = "serving" /\ inflight[r].pc = "handler"
    /\ LET out == generate_core_image_endpoint(
                      [request |-> inflight[r].request,
                       client_exists |-> stability_client # None,
                       api_key_set |-> arg.api_key_set], inflight[r].remote)
       IN  /\ inflight' = [inflight EXCEPT ![r].pc = "done", ![r].answer = out.result,
                                           ![r].sent = out.http]
           /\ http' = http \o out.http
    /\ UNCHANGED <<op, arg, remote, pc, res, client, generation_history, added,
                   stability_client, constructed>>

NextBackend ==
    \/ \E r \in DOMAIN inflight : BackendDependency(r)
    \/ \E r \in DOMAIN inflight : BackendHandler(r)

BackendSpec == InitBackend /\ [][NextBackend]_vars

\* what request r is answered and sends when it is the only request
ServedAlone(r) ==
    generate_core_image_endpoint(
        [request |-> inflight[r].request, client_exists |-> FALSE,
         api_key_set |-> arg.api_key_set], inflight[r].remote)

---------------------------------------------------------------------------
(* utils/ui_components.py: the generation history of one session *)

\* the most items the history keeps, and the most the sidebar shows
HistoryMax == 50

HistoryShown == 10

\* the dict add_to_history builds; the timestamp is the reading of a clock
\* that advances with every item
Item(generation_type, timestamp) ==
    [type |-> generation_type, prompt |-> OneChar, params |-> EmptyDict,
     timestamp |-> timestamp]

\* reversed(s)
Reverse(s) == [i \in 1..Len(s) |-> s[Len(s) + 1 - i]]

\* a faulty add_to_history: the limit is tested before the item is appended
add_to_history_early_test(h, generation_type, timestamp) ==
    LET items == IF h.present THEN h.items ELSE <<>>
        kept == IF Len(items) > HistoryMax THEN Tail(items) ELSE items
    IN  [present |-> TRUE, items |-> Append(kept, Item(generation_type, timestamp))]

\* add_to_history(generation_type, prompt, params): session_state afterwards
add_to_history(h, generation_type, timestamp) ==
    LET items == IF h.present THEN h.items ELSE <<>>
        appended == Append(items, Item(generation_type, timestamp))
    IN  [present |-> TRUE,
         items |-> IF Len(appended) > HistoryMax THEN Tail(appended) ELSE appended]

\* create_generation_history(): session_state afterwards, the items the
\* sidebar shows in order, and what is returned; pressed is None or Some(i),
\* the button with key reuse_i reported as pressed; the loop returns at the
\* pressed button and shows nothing after it
create_generation_history(h, pressed) ==
    LET items == IF h.present THEN h.items ELSE <<>>
        n == Len(items)
        listed == Reverse(SubSeq(items, Max(1, n - HistoryShown + 1), n))
    IN  IF pressed # None /\ pressed[1] < Len(listed)
        THEN [history |-> [present |-> TRUE, items |-> items],
              shown |-> SubSeq(listed, 1, pressed[1] + 1),
              returned |-> Some(listed[pressed[1] + 1])]
        ELSE [history |-> [present |-> TRUE, items |-> items],
              shown |-> listed, returned |-> None]

\* the history k earlier calls of add_to_history have left
Prefilled(k) == [i \in 1..k |-> Item("Core", i)]

\* the histories a session is picked up with
StartLengths == {0, 1, HistoryShown, HistoryShown + 1, HistoryMax - 1, HistoryMax}

\* a session: nothing is on the page yet; arg.start is the number of items
\* added so far
InitHistory ==
    /\ pc = "run_start"
    /\ op = "main"
    /\ \E k \in StartLengths :
          /\ arg = [start |-> k]
          /\ added = Prefilled(k)
          /\ generation_history \in
                (IF k = 0 THEN {NoHistory} ELSE {}) \cup {[present |-> TRUE, items |-> Prefilled(k)]}
    /\ remote = NoRemote
    /\ http = <<>>
    /\ res = [shown |-> <<>>, returned |-> None, pressed |-> None, before |-> <<>>]
    /\ client = StabilityAPIClient_init
    /\ stability_client = None
    /\ constructed = 0
    /\ inflight = <<>>

\* main.py 126: a script run starts and calls create_generation_history; the
\* run was started by a press of one of the reuse buttons on the page, which
\* are those the run before has shown, or by something else; res.pressed
\* keeps the item next to the pressed button
CreateGenerationHistory ==
    /\ pc = "run_start"
    /\ \E pressed \in {None} \cup {Some(i) : i \in 0..(Len(res.shown) - 1)} :
          LET out == create_generation_history(generation_history, pressed)
          IN  /\ generation_history' = out.history
              /\ res' = [shown |-> out.shown, returned |-> out.returned,
                         pressed |-> IF pressed = None THEN None
                                     ELSE Some(res.shown[pressed[1] + 1]),
                         before |-> generation_history.items]
    /\ op' = "create_generation_history"
    /\ pc' = "page"
    /\ UNCHANGED <<arg, remote, http, added, client, stability_client, constructed,
                   inflight>>

\* main.py 295, 399, 444, 551, 666: the run generated something and calls
\* add_to_history, then ends; the sidebar stays as the run has shown it
AddToHistory ==
    /\ pc = "page"
    /\ Len(added) < arg.start + MaxAdds
    /\ \E t \in {"Core", "Audio"} :
          /\ generation_history' = add_to_history(generation_history, t, Len(added) + 1)
          /\ added' = Append(added, Item(t, Len(added) + 1))
    /\ res' = [res EXCEPT !.before = generation_history.items]
    /\ op' = "add_to_history"
    /\ pc' = "run_start"
    /\ UNCHANGED <<arg, remote, http, client, stability_client, constructed, inflight>>

\* the run ends without generating anything
RunEnds ==
    /\ pc = "page"
    /\ op' = "main"
    /\ pc' = "run_start"
    /\ UNCHANGED <<arg, remote, http, res, generation_history, added, client,
                   stability_client, constructed, inflight>>

NextHistory ==
    \/ CreateGenerationHistory
    \/ AddToHistory
    \/ RunEnds

HistorySpec == InitHistory /\ [][NextHistory]_vars

\* the last k elements of s
LastOf(s, k) == SubSeq(s, Len(s) - k + 1, Len(s))

\* C29: the history never holds more than 50 items, it holds the most recent
\* min(n, 50) of the n items added, in the order they were added, and a call
\* of add_to_history drops the oldest item alone, and only when the history
\* with the new item would be longer than 50.
C29_HistoryKeepsLast50 ==
    pc \in {"run_start", "page"} =>
        /\ Len(generation_history.items) <= HistoryMax
        /\ generation_history.items = LastOf(added, Min(Len(added), HistoryMax))
        /\ op = "add_to_history" =>
              generation_history.items =
                  (IF Len(res.before) + 1 > HistoryMax THEN Tail(res.before) ELSE res.before)
                  \o <<added[Len(added)]>>

C29_Witness ==
    /\ pc = "run_start" /\ op = "add_to_history"
    /\ arg.start = HistoryMax - 1
    /\ Len(added) = HistoryMax + 2
    /\ Len(generation_history.items) = HistoryMax
    /\ generation_history.items[1] = added[3]
    /\ generation_history.items[HistoryMax] = added[HistoryMax + 2]

\* C30: create_generation_history shows at most 10 items, the most recently
\* added ones with the newest first, leaves the items of the history as they
\* are, and returns None or the item whose reuse button was pressed, an item
\* of the history that is among its 10 newest.
C30_SidebarShowsAndReturns ==
    (pc = "page" /\ op = "create_generation_history") =>
        LET items == generation_history.items
            newest == Reverse(LastOf(items, Min(Len(items), HistoryShown)))
        IN  /\ Len(res.shown) <= HistoryShown
            /\ res.shown = SubSeq(newest, 1, Len(res.shown))
            /\ items = res.before
            /\ res.returned = res.pressed
            /\ res.returned # None =>
                  \E i \in 1..Len(newest) : newest[i] = res.returned[1]

====
